---------------------------- MODULE Spec2Model ----------------------------
(***************************************************************************)
(* The sharded map-reduce execution engine of                              *)
(* google/appengine/ext/mapreduce/handlers.py: the worker slice state      *)
(* machine with its lease protocol (MapperWorkerCallbackHandler), the      *)
(* controller poller (ControllerCallbackHandler) and job kickoff           *)
(* (KickOffJobHandler, StartJobHandler).                                   *)
(*                                                                         *)
(* Every handler run is cut at its datastore operations: one action per    *)
(* datastore read, transaction or write, with the local computation that   *)
(* precedes it.  The task queue delivers at least once: a task that was    *)
(* added may be delivered at any time, again after a delivery of it ended  *)
(* and while an earlier delivery is still running.  The clock counts ticks *)
(* of _LEASE_DURATION_SEC.                                                 *)
(*                                                                         *)
(* Spec is one shard's worker tasks after kickoff; SpecRetry is the same   *)
(* for a handler that fails on every attempt; SpecSlice the same with      *)
(* three attempts per slice; SpecAbort the same under fair delivery;       *)
(* SpecLease is Spec under fair redelivery; SpecValidate applies           *)
(* _try_acquire_lease to stored states and payloads drawn from bounded     *)
(* sets; SpecJob is a job from _start_map on, with kickoff, the workers    *)
(* and the controller; SpecPoll is the controller over ShardStates drawn   *)
(* from bounded sets; SpecPollAbort is the controller beside the workers   *)
(* of a job of two shards, one of which has ended; SpecProgress is the     *)
(* workers and the controller of a job whose handler never raises, under   *)
(* fair delivery; SpecDrop is Spec with deliveries that the task queue     *)
(* handler answers with _drop_gracefully.                                  *)
(***************************************************************************)
EXTENDS Integers, Sequences, FiniteSets, TLC

VARIABLES
    conf,       \* the job's configuration (parameters.config and the writer's capability flags)
    now,        \* the wall clock (datetime.datetime.now)
    shard,      \* datastore: shard number -> ShardState
    control,    \* datastore: MapreduceControl.command, "none" when there is no record
    wtasks,     \* task queue: the worker tasks (TransientShardState payloads)
    inv,        \* the worker task deliveries so far; a delivery's index is its REQUEST_LOG_ID
    granted,    \* history: the deliveries that got PROCEED_TASK from _try_acquire_lease
    takeover,   \* history: the shards on which a lease was taken from a delivery still running
    recovered,  \* history: the (shard, slice_id, retries) whose RECOVER_SLICE was committed
    mr,         \* datastore: the job's MapreduceState
    readers,    \* datastore: the number of input readers kickoff saved (0: none saved)
    kick,       \* the kickoff task deliveries so far
    ctasks,     \* task queue: the serial_ids of the controller tasks accepted, in order
    ctl,        \* the controller task deliveries so far
    effects     \* the job's one-shot side effects: how often each was triggered

wvars == <<shard, control, wtasks, inv, granted, takeover, recovered>>
jvars == <<mr, readers, kick, ctasks, ctl, effects>>
jvarsButCtl == <<mr, readers, kick, ctasks, effects>>
vars == <<conf, now, shard, control, wtasks, inv, granted, takeover, recovered,
          mr, readers, kick, ctasks, ctl, effects>>

-----------------------------------------------------------------------------
(* Bounds of the model. *)

MaxInv == 3
MaxInvRetry == 3
MaxInvAbort == 3
MaxInvSlice == 3
MaxInvValidate == 3
MaxRetries == 2
MaxSliceId == 2
MaxInvJob == 2
MaxKick == 2
MaxCtl == 2
MaxShards == 1
MaxSerial == 1
MaxPollShards == 2
MaxTime == 3
InputLen == 1

(* parameters._LEASE_DURATION_SEC and parameters._MAX_LEASE_DURATION_SEC,   *)
(* in clock ticks.                                                          *)
LEASE_DURATION_SEC == 1
MAX_LEASE_DURATION_SEC == 2

(* None, for slice_start_time and slice_request_id. *)
NoTime == 0
NoReq == 0

-----------------------------------------------------------------------------
(* model.ShardState and its methods. *)

create_new ==
    [active |-> TRUE, slice_id |-> 0, slice_start_time |-> NoTime,
     slice_request_id |-> NoReq, retries |-> 0, slice_retries |-> 0,
     result_status |-> "none", acquired_once |-> FALSE,
     input_finished |-> FALSE, calls |-> 0]

advance_for_next_slice(ss, recovery_slice) ==
    [ss EXCEPT !.slice_start_time = NoTime, !.slice_request_id = NoReq,
               !.slice_retries = 0, !.acquired_once = FALSE,
               !.slice_id = IF recovery_slice THEN @ + 2 ELSE @ + 1]

reset_for_retry(ss) ==
    [create_new EXCEPT !.retries = ss.retries + 1]

set_for_failure(ss) ==
    [ss EXCEPT !.active = FALSE, !.result_status = "failed"]

set_for_abort(ss) ==
    [ss EXCEPT !.active = FALSE, !.result_status = "aborted"]

set_for_success(ss) ==
    [ss EXCEPT !.active = FALSE, !.result_status = "success",
               !.slice_start_time = NoTime, !.slice_request_id = NoReq,
               !.slice_retries = 0, !.acquired_once = FALSE]

(* model.TransientShardState: the payload of a worker task. *)
tstate_new(s) == [shard |-> s, slice_id |-> 0, retries |-> 0, pos |-> 0]

tstate_advance_for_next_slice(t, recovery_slice) ==
    [t EXCEPT !.slice_id = IF recovery_slice THEN @ + 2 ELSE @ + 1]

tstate_reset_for_retry(t) ==
    [t EXCEPT !.retries = @ + 1, !.slice_id = 0, !.pos = 0]

-----------------------------------------------------------------------------
(* _wait_time for which no lease ever ages. *)
wait_time_never_over(ss, secs, t) == secs

(* MapperWorkerCallbackHandler._wait_time *)
wait_time(ss, secs, t) ==
    LET delta == t - ss.slice_start_time
    IN  IF delta < secs THEN secs - delta ELSE 0

(* MapperWorkerCallbackHandler._try_acquire_lease up to its transaction:    *)
(* "acquire" when the checks let the delivery go on to the transaction.     *)
validate_ignoring_held_lease(present, ss, t, clock, ended) ==
    IF ~present THEN "drop_task"
    ELSE IF ~ss.active THEN "drop_task"
    ELSE IF ss.retries > t.retries THEN "drop_task"
    ELSE IF ss.retries < t.retries THEN "retry_task"
    ELSE IF ss.slice_id > t.slice_id THEN "drop_task"
    ELSE IF ss.slice_id < t.slice_id THEN "retry_task"
    ELSE "acquire"

validate_without_probe(present, ss, t, clock, ended) ==
    IF ~present THEN "drop_task"
    ELSE IF ~ss.active THEN "drop_task"
    ELSE IF ss.retries > t.retries THEN "drop_task"
    ELSE IF ss.retries < t.retries THEN "retry_task"
    ELSE IF ss.slice_id > t.slice_id THEN "drop_task"
    ELSE IF ss.slice_id < t.slice_id THEN "retry_task"
    ELSE IF ss.slice_start_time # NoTime
         THEN IF wait_time(ss, LEASE_DURATION_SEC, clock) > 0
              THEN "retry_task"
              ELSE "acquire"
         ELSE "acquire"

validate_slice_id_first(present, ss, t, clock, ended) ==
    IF ~present THEN "drop_task"
    ELSE IF ~ss.active THEN "drop_task"
    ELSE IF ss.slice_id > t.slice_id THEN "drop_task"
    ELSE IF ss.slice_id < t.slice_id THEN "retry_task"
    ELSE IF ss.retries > t.retries THEN "drop_task"
    ELSE IF ss.retries < t.retries THEN "retry_task"
    ELSE IF ss.slice_start_time # NoTime
         THEN IF wait_time(ss, LEASE_DURATION_SEC, clock) > 0
              THEN "retry_task"
              ELSE IF wait_time(ss, MAX_LEASE_DURATION_SEC, clock) > 0
                   THEN IF ~ended THEN "retry_task" ELSE "acquire"
                   ELSE "acquire"
         ELSE "acquire"

validate_probing_past_max(present, ss, t, clock, ended) ==
    IF ~present THEN "drop_task"
    ELSE IF ~ss.active THEN "drop_task"
    ELSE IF ss.retries > t.retries THEN "drop_task"
    ELSE IF ss.retries < t.retries THEN "retry_task"
    ELSE IF ss.slice_id > t.slice_id THEN "drop_task"
    ELSE IF ss.slice_id < t.slice_id THEN "retry_task"
    ELSE IF ss.slice_start_time # NoTime
         THEN IF wait_time(ss, LEASE_DURATION_SEC, clock) > 0
              THEN "retry_task"
              ELSE IF ~ended THEN "retry_task" ELSE "acquire"
         ELSE "acquire"

validate(present, ss, t, clock, ended) ==
    IF ~present THEN "drop_task"
    ELSE IF ~ss.active THEN "drop_task"
    ELSE IF ss.retries > t.retries THEN "drop_task"
    ELSE IF ss.retries < t.retries THEN "retry_task"
    ELSE IF ss.slice_id > t.slice_id THEN "drop_task"
    ELSE IF ss.slice_id < t.slice_id THEN "retry_task"
    ELSE IF ss.slice_start_time # NoTime
         THEN IF wait_time(ss, LEASE_DURATION_SEC, clock) > 0
              THEN "retry_task"
              ELSE IF wait_time(ss, MAX_LEASE_DURATION_SEC, clock) > 0
                   THEN IF ~ended THEN "retry_task" ELSE "acquire"
                   ELSE "acquire"
         ELSE "acquire"

(* The check of _try_acquire_lease._tx on the freshly read state. *)
lease_tx_ok(fresh, ss) ==
    /\ fresh.active
    /\ fresh.slice_id = ss.slice_id
    /\ fresh.slice_start_time = ss.slice_start_time

(* The state _try_free_lease._tx leaves. *)
try_free_lease(fresh, slice_retry) ==
    IF fresh.active
    THEN [fresh EXCEPT !.slice_start_time = NoTime, !.slice_request_id = NoReq,
                       !.slice_retries = IF slice_retry THEN @ + 1 ELSE @]
    ELSE fresh

(* The check of _save_state_and_schedule_next._tx on the freshly read state. *)
save_tx_ok(fresh, ss) == fresh.active

-----------------------------------------------------------------------------
(* The retry policy: _set_state with _attempt_slice_retry and               *)
(* _attempt_shard_retry.  The result names the directive and the local     *)
(* ShardState and TransientShardState it leaves.                            *)

attempt_shard_retry_one_more(ss, t) ==
    IF ss.retries + 1 > conf.SHARD_MAX_ATTEMPTS
    THEN "fail_task"
    ELSE IF conf.output_writer /\ ~conf.supports_shard_retry
    THEN "fail_task"
    ELSE "retry_shard"

attempt_shard_retry_whatever_the_writer(ss, t) ==
    IF ss.retries + 1 >= conf.SHARD_MAX_ATTEMPTS
    THEN "fail_task"
    ELSE "retry_shard"

attempt_shard_retry(ss, t) ==
    IF ss.retries + 1 >= conf.SHARD_MAX_ATTEMPTS
    THEN "fail_task"
    ELSE IF conf.output_writer /\ ~conf.supports_shard_retry
    THEN "fail_task"
    ELSE "retry_shard"

attempt_slice_retry_once_more(ss) ==
    IF ss.slice_retries + 1 <= conf.TASK_MAX_DATA_PROCESSING_ATTEMPTS
    THEN "retry_slice"
    ELSE "retry_shard"

attempt_slice_retry(ss) ==
    IF ss.slice_retries + 1 < conf.TASK_MAX_DATA_PROCESSING_ATTEMPTS
    THEN "retry_slice"
    ELSE "retry_shard"

set_state_skipping_a_slice(ss, t, directive) ==
    LET d1 == IF directive = "retry_slice" THEN attempt_slice_retry(ss) ELSE directive
        d2 == IF d1 = "retry_shard" THEN attempt_shard_retry(ss, t) ELSE d1
    IN  CASE directive = "abort_shard" ->
               [d |-> directive, ss |-> set_for_abort(ss), t |-> t]
          [] directive \in {"proceed_task", "recover_slice"} ->
               [d |-> directive, ss |-> advance_for_next_slice(ss, TRUE),
                t |-> tstate_advance_for_next_slice(t, TRUE)]
          [] OTHER ->
               CASE d2 = "retry_shard" ->
                      [d |-> d2, ss |-> reset_for_retry(ss), t |-> tstate_reset_for_retry(t)]
                 [] d2 = "fail_task" ->
                      [d |-> d2, ss |-> set_for_failure(ss), t |-> t]
                 [] OTHER -> [d |-> d2, ss |-> ss, t |-> t]

set_state_leaving_abort_active(ss, t, directive) ==
    LET d1 == IF directive = "retry_slice" THEN attempt_slice_retry(ss) ELSE directive
        d2 == IF d1 = "retry_shard" THEN attempt_shard_retry(ss, t) ELSE d1
    IN  CASE directive = "abort_shard" ->
               [d |-> directive, ss |-> ss, t |-> t]
          [] directive = "proceed_task" ->
               [d |-> directive, ss |-> advance_for_next_slice(ss, FALSE),
                t |-> tstate_advance_for_next_slice(t, FALSE)]
          [] directive = "recover_slice" ->
               [d |-> directive, ss |-> advance_for_next_slice(ss, TRUE),
                t |-> tstate_advance_for_next_slice(t, TRUE)]
          [] OTHER ->
               CASE d2 = "retry_shard" ->
                      [d |-> d2, ss |-> reset_for_retry(ss), t |-> tstate_reset_for_retry(t)]
                 [] d2 = "fail_task" ->
                      [d |-> d2, ss |-> set_for_failure(ss), t |-> t]
                 [] OTHER -> [d |-> d2, ss |-> ss, t |-> t]

set_state_retrying_failed_job(ss, t, directive) ==
    LET d1 == IF directive \in {"retry_slice", "fail_task"}
              THEN attempt_slice_retry(ss) ELSE directive
        d2 == IF d1 = "retry_shard" THEN attempt_shard_retry(ss, t) ELSE d1
    IN  CASE directive = "abort_shard" ->
               [d |-> directive, ss |-> set_for_abort(ss), t |-> t]
          [] directive = "proceed_task" ->
               [d |-> directive, ss |-> advance_for_next_slice(ss, FALSE),
                t |-> tstate_advance_for_next_slice(t, FALSE)]
          [] directive = "recover_slice" ->
               [d |-> directive, ss |-> advance_for_next_slice(ss, TRUE),
                t |-> tstate_advance_for_next_slice(t, TRUE)]
          [] OTHER ->
               CASE d2 = "retry_shard" ->
                      [d |-> d2, ss |-> reset_for_retry(ss), t |-> tstate_reset_for_retry(t)]
                 [] d2 = "fail_task" ->
                      [d |-> d2, ss |-> set_for_failure(ss), t |-> t]
                 [] OTHER -> [d |-> d2, ss |-> ss, t |-> t]

(* _set_state whose FAIL_TASK and ABORT_SHARD record the result and leave    *)
(* the shard active.                                                         *)
set_state_failing_yet_active(ss, t, directive) ==
    LET d1 == IF directive = "retry_slice" THEN attempt_slice_retry(ss) ELSE directive
        d2 == IF d1 = "retry_shard" THEN attempt_shard_retry(ss, t) ELSE d1
    IN  CASE directive = "abort_shard" ->
               [d |-> directive, ss |-> [ss EXCEPT !.result_status = "aborted"],
                t |-> tstate_advance_for_next_slice(t, FALSE)]
          [] directive = "proceed_task" ->
               [d |-> directive, ss |-> advance_for_next_slice(ss, FALSE),
                t |-> tstate_advance_for_next_slice(t, FALSE)]
          [] directive = "recover_slice" ->
               [d |-> directive, ss |-> advance_for_next_slice(ss, TRUE),
                t |-> tstate_advance_for_next_slice(t, TRUE)]
          [] OTHER ->
               CASE d2 = "retry_shard" ->
                      [d |-> d2, ss |-> reset_for_retry(ss), t |-> tstate_reset_for_retry(t)]
                 [] d2 = "fail_task" ->
                      [d |-> d2, ss |-> [ss EXCEPT !.result_status = "failed"],
                       t |-> tstate_advance_for_next_slice(t, FALSE)]
                 [] OTHER -> [d |-> d2, ss |-> ss, t |-> t]

set_state(ss, t, directive) ==
    LET d1 == IF directive = "retry_slice" THEN attempt_slice_retry(ss) ELSE directive
        d2 == IF d1 = "retry_shard" THEN attempt_shard_retry(ss, t) ELSE d1
    IN  CASE directive = "abort_shard" ->
               [d |-> directive, ss |-> set_for_abort(ss), t |-> t]
          [] directive = "proceed_task" ->
               [d |-> directive, ss |-> advance_for_next_slice(ss, FALSE),
                t |-> tstate_advance_for_next_slice(t, FALSE)]
          [] directive = "recover_slice" ->
               [d |-> directive, ss |-> advance_for_next_slice(ss, TRUE),
                t |-> tstate_advance_for_next_slice(t, TRUE)]
          [] OTHER ->
               CASE d2 = "retry_shard" ->
                      [d |-> d2, ss |-> reset_for_retry(ss), t |-> tstate_reset_for_retry(t)]
                 [] d2 = "fail_task" ->
                      [d |-> d2, ss |-> set_for_failure(ss), t |-> t]
                 [] OTHER -> [d |-> d2, ss |-> ss, t |-> t]

-----------------------------------------------------------------------------
(* A delivery of a worker task: one run of MapperWorkerCallbackHandler.handle. *)

IdleInv == [pc |-> "done", t |-> tstate_new(1), ss |-> create_new,
            abort |-> FALSE, is_this_a_retry |-> FALSE]

Ended(r) == r \in 1..Len(inv) /\ inv[r].pc = "done"

Holding(w) == w \in 1..Len(inv) /\ inv[w].pc = "run"

(* MapperWorkerCallbackHandler._has_old_request_ended: the Logs API answers *)
(* finished only for a request that has ended, and may not know of it.      *)
has_old_request_ended(ss) == {FALSE} \cup {e \in {TRUE} : Ended(ss.slice_request_id)}

(* The task queue delivers worker task t and handle runs: db.get of the    *)
(* ShardState and the MapreduceControl, then the checks of                  *)
(* _try_acquire_lease.  DROP_TASK and RETRY_TASK end the run with nothing   *)
(* written; otherwise the run goes on to the lease transaction.  A task may *)
(* be delivered again at any time, also after a delivery of it succeeded.   *)
handle_read(t, limit) ==
    /\ t \in wtasks
    /\ Len(inv) < limit
    /\ LET present == t.shard \in DOMAIN shard
           ss == IF present THEN shard[t.shard] ELSE create_new
       IN \E ended \in (IF present /\ ss.slice_start_time # NoTime
                        THEN has_old_request_ended(ss) ELSE {FALSE}) :
            /\ validate(present, ss, t, now, ended) = "acquire"
            /\ inv' = Append(inv, [pc |-> "lease", t |-> t, ss |-> ss,
                                   abort |-> (control = "abort"),
                                   is_this_a_retry |-> ss.acquired_once])
    /\ UNCHANGED <<conf, now, shard, control, wtasks, granted, takeover, recovered>>
    /\ UNCHANGED jvars

(* The same delivery when the checks of _try_acquire_lease answer DROP_TASK *)
(* or RETRY_TASK: handle returns through __return, and                      *)
(* _save_state_and_schedule_next returns (DROP_TASK) or calls retry_task    *)
(* (RETRY_TASK) with nothing written.  The directive is kept as the pc of   *)
(* the ended request.                                                       *)
handle_refused_releasing_lease(t, limit) ==
    /\ t \in wtasks
    /\ Len(inv) < limit
    /\ LET present == t.shard \in DOMAIN shard
           ss == IF present THEN shard[t.shard] ELSE create_new
       IN \E ended \in (IF present /\ ss.slice_start_time # NoTime
                        THEN has_old_request_ended(ss) ELSE {FALSE}) :
            /\ validate(present, ss, t, now, ended) # "acquire"
            /\ inv' = Append(inv, [pc |-> validate(present, ss, t, now, ended),
                                   t |-> t, ss |-> ss,
                                   abort |-> (control = "abort"),
                                   is_this_a_retry |-> ss.acquired_once])
            /\ shard' = IF present
                        THEN [shard EXCEPT ![t.shard] = try_free_lease(@, FALSE)]
                        ELSE shard
    /\ UNCHANGED <<conf, now, control, wtasks, granted, takeover, recovered>>
    /\ UNCHANGED jvars

handle_refused(t, limit) ==
    /\ t \in wtasks
    /\ Len(inv) < limit
    /\ LET present == t.shard \in DOMAIN shard
           ss == IF present THEN shard[t.shard] ELSE create_new
       IN \E ended \in (IF present /\ ss.slice_start_time # NoTime
                        THEN has_old_request_ended(ss) ELSE {FALSE}) :
            /\ validate(present, ss, t, now, ended) # "acquire"
            /\ inv' = Append(inv, [pc |-> validate(present, ss, t, now, ended),
                                   t |-> t, ss |-> ss,
                                   abort |-> (control = "abort"),
                                   is_this_a_retry |-> ss.acquired_once])
    /\ UNCHANGED <<conf, now, shard, control, wtasks, granted, takeover, recovered>>
    /\ UNCHANGED jvars

(* _try_acquire_lease._tx: the compare-and-set of the lease, writing the    *)
(* handler's own copy of the ShardState.                                    *)
try_acquire_lease_tx(w) ==
    /\ inv[w].pc = "lease"
    /\ LET t == inv[w].t
           ss == inv[w].ss
       IN IF t.shard \in DOMAIN shard /\ lease_tx_ok(shard[t.shard], ss)
          THEN LET mine == [ss EXCEPT !.slice_start_time = now,
                                      !.slice_request_id = w,
                                      !.acquired_once = TRUE]
               IN  /\ shard' = [shard EXCEPT ![t.shard] = mine]
                   /\ inv' = [inv EXCEPT ![w] = [@ EXCEPT !.pc = "run", !.ss = mine]]
                   /\ granted' = granted \cup {<<t.shard, t.slice_id, t.retries, w>>}
                   /\ takeover' =
                        IF /\ ss.slice_start_time # NoTime
                           /\ now - ss.slice_start_time >= MAX_LEASE_DURATION_SEC
                           /\ Holding(ss.slice_request_id)
                        THEN takeover \cup {t.shard} ELSE takeover
          ELSE /\ inv' = [inv EXCEPT ![w] = IdleInv]
               /\ UNCHANGED <<shard, granted, takeover>>
    /\ UNCHANGED <<conf, now, control, wtasks, recovered>>
    /\ UNCHANGED jvars

(* handle, line 513: the MapreduceControl read at the start of the run      *)
(* holds the ABORT command.                                                 *)
abort_unobserved(r) == FALSE

abort_observed(r) == r.abort

slice_outcomes_processing_in_recovery(w) ==
    LET r == inv[w]
        ss == r.ss
        t == r.t
        errs == IF conf.handler_always_fails \/ conf.handler_never_raises THEN {}
                ELSE {[d |-> "retry_slice", ss |-> ss, t |-> t, n |-> 0],
                      [d |-> "fail_task", ss |-> ss, t |-> t, n |-> 0]}
    IN  IF abort_observed(r)
        THEN {[d |-> "abort_shard", ss |-> ss, t |-> t, n |-> 0]}
        ELSE IF r.is_this_a_retry /\ conf.TASK_MAX_DATA_PROCESSING_ATTEMPTS <= 1
        THEN {[d |-> "retry_shard", ss |-> ss, t |-> t, n |-> 0]}
        ELSE IF ss.input_finished
        THEN errs \cup
             {[d |-> "proceed_task", ss |-> set_for_success(ss), t |-> t, n |-> 0]}
        ELSE IF r.is_this_a_retry /\ conf.supports_slice_recovery
        THEN errs \cup
             {[d |-> "recover_slice",
               ss |-> [ss EXCEPT !.calls = @ + n],
               t |-> [t EXCEPT !.pos = @ + n], n |-> n] :
                  n \in 0..(InputLen - t.pos)}
        ELSE IF conf.handler_always_fails
        THEN {[d |-> "retry_slice", ss |-> ss, t |-> t, n |-> 0]}
        ELSE errs \cup
             {[d |-> "proceed_task",
               ss |-> [ss EXCEPT !.calls = @ + n],
               t |-> [t EXCEPT !.pos = @ + n], n |-> n] :
                  n \in 1..(InputLen - t.pos)} \cup
             {[d |-> "proceed_task",
               ss |-> [ss EXCEPT !.calls = @ + (InputLen - t.pos),
                                 !.input_finished = TRUE],
               t |-> [t EXCEPT !.pos = InputLen], n |-> InputLen - t.pos]}

(* The slice of a handler that never raises, were a stop at the time or     *)
(* item budget a failure of the slice.                                      *)
slice_outcomes_failing_at_budget(w) ==
    LET r == inv[w]
        ss == r.ss
        t == r.t
    IN  IF abort_observed(r)
        THEN {[d |-> "abort_shard", ss |-> ss, t |-> t, n |-> 0]}
        ELSE IF r.is_this_a_retry /\ conf.TASK_MAX_DATA_PROCESSING_ATTEMPTS <= 1
        THEN {[d |-> "retry_shard", ss |-> ss, t |-> t, n |-> 0]}
        ELSE IF ss.input_finished
        THEN {[d |-> "proceed_task", ss |-> set_for_success(ss), t |-> t, n |-> 0]}
        ELSE IF r.is_this_a_retry /\ conf.supports_slice_recovery
        THEN {[d |-> "recover_slice", ss |-> ss, t |-> t, n |-> 0]}
        ELSE {[d |-> "fail_task",
               ss |-> [ss EXCEPT !.calls = @ + n],
               t |-> [t EXCEPT !.pos = @ + n], n |-> n] :
                  n \in 1..(InputLen - t.pos)} \cup
             {[d |-> "proceed_task",
               ss |-> [ss EXCEPT !.calls = @ + (InputLen - t.pos),
                                 !.input_finished = TRUE],
               t |-> [t EXCEPT !.pos = InputLen], n |-> InputLen - t.pos]}

(* The slice, were the shard ended SUCCESS by the slice that exhausts the   *)
(* input.                                                                   *)
slice_outcomes_succeeding_at_once(w) ==
    LET r == inv[w]
        ss == r.ss
        t == r.t
        errs == IF conf.handler_always_fails \/ conf.handler_never_raises THEN {}
                ELSE {[d |-> "retry_slice", ss |-> ss, t |-> t, n |-> 0],
                      [d |-> "fail_task", ss |-> ss, t |-> t, n |-> 0]}
    IN  IF abort_observed(r)
        THEN {[d |-> "abort_shard", ss |-> ss, t |-> t, n |-> 0]}
        ELSE IF r.is_this_a_retry /\ conf.TASK_MAX_DATA_PROCESSING_ATTEMPTS <= 1
        THEN {[d |-> "retry_shard", ss |-> ss, t |-> t, n |-> 0]}
        ELSE IF ss.input_finished
        THEN errs \cup
             {[d |-> "proceed_task", ss |-> set_for_success(ss), t |-> t, n |-> 0]}
        ELSE IF r.is_this_a_retry /\ conf.supports_slice_recovery
        THEN errs \cup {[d |-> "recover_slice", ss |-> ss, t |-> t, n |-> 0]}
        ELSE IF conf.handler_always_fails
        THEN {[d |-> "retry_slice", ss |-> ss, t |-> t, n |-> 0]}
        ELSE errs \cup
             {[d |-> "proceed_task",
               ss |-> [ss EXCEPT !.calls = @ + n],
               t |-> [t EXCEPT !.pos = @ + n], n |-> n] :
                  n \in 1..(InputLen - t.pos)} \cup
             {[d |-> "proceed_task",
               ss |-> set_for_success([ss EXCEPT !.calls = @ + (InputLen - t.pos),
                                                 !.input_finished = TRUE]),
               t |-> [t EXCEPT !.pos = InputLen], n |-> InputLen - t.pos]}

(* What the slice itself decides (handle, lines 513-584) before _set_state: *)
(* the outcomes the run of the slice can have.  n counts the input items    *)
(* the slice read.                                                          *)
slice_outcomes(w) ==
    LET r == inv[w]
        ss == r.ss
        t == r.t
        errs == IF conf.handler_always_fails \/ conf.handler_never_raises THEN {}
                ELSE {[d |-> "retry_slice", ss |-> ss, t |-> t, n |-> 0],
                      [d |-> "fail_task", ss |-> ss, t |-> t, n |-> 0]}
    IN  IF abort_observed(r)
        THEN {[d |-> "abort_shard", ss |-> ss, t |-> t, n |-> 0]}
        ELSE IF r.is_this_a_retry /\ conf.TASK_MAX_DATA_PROCESSING_ATTEMPTS <= 1
        THEN {[d |-> "retry_shard", ss |-> ss, t |-> t, n |-> 0]}
        ELSE IF ss.input_finished
        THEN errs \cup
             {[d |-> "proceed_task", ss |-> set_for_success(ss), t |-> t, n |-> 0]}
        ELSE IF r.is_this_a_retry /\ conf.supports_slice_recovery
        THEN errs \cup {[d |-> "recover_slice", ss |-> ss, t |-> t, n |-> 0]}
        ELSE IF conf.handler_always_fails
        THEN {[d |-> "retry_slice", ss |-> ss, t |-> t, n |-> 0]}
        ELSE errs \cup
             {[d |-> "proceed_task",
               ss |-> [ss EXCEPT !.calls = @ + n],
               t |-> [t EXCEPT !.pos = @ + n], n |-> n] :
                  n \in 1..(InputLen - t.pos)} \cup
             {[d |-> "proceed_task",
               ss |-> [ss EXCEPT !.calls = @ + (InputLen - t.pos),
                                 !.input_finished = TRUE],
               t |-> [t EXCEPT !.pos = InputLen], n |-> InputLen - t.pos]}

handle_return_adding_task_outside_tx(w) ==
    /\ inv[w].pc = "run"
    /\ \E o \in slice_outcomes(w) :
         LET s == inv[w].t.shard
             r == set_state(o.ss, o.t, o.d)
         IN  IF r.d = "retry_slice"
             THEN /\ shard' = IF s \in DOMAIN shard
                              THEN [shard EXCEPT ![s] = try_free_lease(@, TRUE)]
                              ELSE shard
                  /\ UNCHANGED wtasks
             ELSE /\ wtasks' = wtasks \cup (IF r.ss.active THEN {r.t} ELSE {})
                  /\ IF s \in DOMAIN shard /\ save_tx_ok(shard[s], r.ss)
                     THEN shard' = [shard EXCEPT ![s] = r.ss]
                     ELSE UNCHANGED shard
    /\ inv' = [inv EXCEPT ![w] = IdleInv]
    /\ UNCHANGED <<conf, now, control, granted, takeover, recovered>>
    /\ UNCHANGED jvars

(* The slice ends and handle returns through __return: _set_state, then     *)
(* _save_state_and_schedule_next with its transaction, or, for a slice      *)
(* retry, the transaction of _try_free_lease.                               *)
handle_return(w) ==
    /\ inv[w].pc = "run"
    /\ \E o \in slice_outcomes(w) :
         LET s == inv[w].t.shard
             r == set_state(o.ss, o.t, o.d)
         IN  IF r.d = "retry_slice"
             THEN /\ shard' = IF s \in DOMAIN shard
                              THEN [shard EXCEPT ![s] = try_free_lease(@, TRUE)]
                              ELSE shard
                  /\ UNCHANGED <<wtasks, recovered>>
             ELSE IF s \in DOMAIN shard /\ save_tx_ok(shard[s], r.ss)
             THEN /\ shard' = [shard EXCEPT ![s] = r.ss]
                  /\ wtasks' = wtasks \cup (IF r.ss.active THEN {r.t} ELSE {})
                  /\ recovered' = IF r.d = "recover_slice"
                                  THEN recovered \cup
                                       {<<s, o.t.slice_id, o.t.retries>>}
                                  ELSE recovered
             ELSE UNCHANGED <<shard, wtasks, recovered>>
    /\ inv' = [inv EXCEPT ![w] = IdleInv]
    /\ UNCHANGED <<conf, now, control, granted, takeover>>
    /\ UNCHANGED jvars

(* The outcome o of a slice is returned from inside the try block of        *)
(* handle (lines 539-555): the finalization of a shard whose input was      *)
(* finished, and RECOVER_SLICE.                                             *)
returned_in_try(w, o) ==
    \/ o.d = "recover_slice"
    \/ o.d = "proceed_task" /\ inv[w].ss.input_finished

(* The transaction of _save_state_and_schedule_next fails (datastore or     *)
(* task queue unavailable): _try_free_lease, and the error is raised.       *)
(* Raised from a return inside the try block, the error is caught at line   *)
(* 570 as a failure of the slice, and __return runs a second time, with     *)
(* RETRY_SLICE, on the states the first run advanced: _attempt_slice_retry  *)
(* releases the lease again, counting a slice retry, or goes to the shard   *)
(* retry decision and to a second save, taken here in the same step.        *)
save_tx_error(w) ==
    /\ inv[w].pc = "run"
    /\ inv[w].t.shard \in DOMAIN shard
    /\ \E o \in slice_outcomes(w) :
         LET s == inv[w].t.shard
             r == set_state(o.ss, o.t, o.d)
             r2 == set_state(r.ss, r.t, "retry_slice")
             freed == [shard EXCEPT ![s] = try_free_lease(@, FALSE)]
         IN  /\ r.d # "retry_slice"
             /\ IF ~returned_in_try(w, o)
                THEN shard' = freed /\ UNCHANGED wtasks
                ELSE IF r2.d = "retry_slice"
                THEN /\ shard' = [freed EXCEPT ![s] = try_free_lease(@, TRUE)]
                     /\ UNCHANGED wtasks
                ELSE \/ shard' = freed /\ UNCHANGED wtasks
                     \/ IF save_tx_ok(freed[s], r2.ss)
                        THEN /\ shard' = [freed EXCEPT ![s] = r2.ss]
                             /\ wtasks' = wtasks \cup
                                   (IF r2.ss.active THEN {r2.t} ELSE {})
                        ELSE shard' = freed /\ UNCHANGED wtasks
    /\ inv' = [inv EXCEPT ![w] = IdleInv]
    /\ UNCHANGED <<conf, now, control, granted, takeover, recovered>>
    /\ UNCHANGED jvars

(* The instance running the handler dies, or the request hits its deadline. *)
Crash(w) ==
    /\ inv[w].pc = "run"
    /\ inv' = [inv EXCEPT ![w] = IdleInv]
    /\ UNCHANGED <<conf, now, shard, control, wtasks, granted, takeover, recovered>>
    /\ UNCHANGED jvars

(* AbortJobHandler.handle: model.MapreduceControl.abort *)
AbortJob ==
    /\ control = "none"
    /\ control' = "abort"
    /\ UNCHANGED <<conf, now, shard, wtasks, inv, granted, takeover, recovered>>
    /\ UNCHANGED jvars

Tick ==
    /\ now < MaxTime
    /\ now' = now + 1
    /\ UNCHANGED <<conf, wvars, jvars>>

(* The request of the newest delivery is over and no stored or read         *)
(* ShardState names its REQUEST_LOG_ID any more: the id is of no further    *)
(* consequence, and the next delivery is numbered with it.  Deliveries      *)
(* that start before the abort command are MaxInvAbort at most; those that  *)
(* start after it are unbounded in number, and finitely many ids serve      *)
(* them.                                                                    *)
request_forgotten ==
    /\ control = "abort"
    /\ Len(inv) > 0
    /\ inv[Len(inv)].pc = "done"
    /\ \A s \in DOMAIN shard : shard[s].slice_request_id # Len(inv)
    /\ \A w \in 1..Len(inv) : inv[w].ss.slice_request_id # Len(inv)
    /\ inv' = SubSeq(inv, 1, Len(inv) - 1)
    /\ UNCHANGED <<conf, now, shard, control, wtasks, granted, takeover, recovered>>
    /\ UNCHANGED jvars

-----------------------------------------------------------------------------
(* The job: MapreduceState, ControllerCallbackHandler._finalize_job and the *)
(* kickoff task.                                                            *)

(* model.MapreduceState as StartJobHandler._create_and_save_state saves it. *)
create_and_save_state ==
    [active |-> TRUE, active_shards |-> 0, failed_shards |-> 0,
     aborted_shards |-> 0, result_status |-> "none", shard_count |-> 0,
     calls |-> 0]

NoEffects == [finalize_outputs |-> 0, finalize_job |-> 0, done_task |-> 0,
              cleanup_task |-> 0]

(* KickOffJobHandler._check_mr_state; the MapreduceState exists from        *)
(* _start_map on.                                                           *)
check_mr_state(state) == state.active

(* The check of _finalize_job._put_state on the freshly read state. *)
finalize_tx_unguarded(fresh) == TRUE

finalize_tx_ok(fresh) == fresh.active

(* ControllerCallbackHandler._finalize_job: the transaction that stores the *)
(* state and adds the done callback task, then _clean_up_mr, which adds the *)
(* named finalize task.  effs: the side effects counted so far in the step. *)
finalize_job(state, effs) ==
    /\ mr' = IF finalize_tx_ok(mr) THEN state ELSE mr
    /\ effects' = [effs EXCEPT !.finalize_job = @ + 1,
                               !.done_task = IF finalize_tx_ok(mr) /\ conf.done_callback
                                             THEN @ + 1 ELSE @,
                               !.cleanup_task = 1]

(* ControllerCallbackHandler._finalize_outputs: the writer's finalize_job *)
finalize_outputs(state, effs) ==
    IF conf.output_writer /\ state.result_status = "success"
    THEN [effs EXCEPT !.finalize_outputs = @ + 1]
    ELSE effs

(* The names of the controller tasks in the queue q: their serial_ids. *)
Named(q) == {q[i] : i \in 1..Len(q)}

(* reschedule with a task that has no name: the queue accepts every add. *)
reschedule_unnamed(q, serial_id) == Append(q, serial_id)

(* ControllerCallbackHandler.reschedule: the task is named after the job    *)
(* and the serial_id, and the queue refuses a name it has seen              *)
(* (TaskAlreadyExistsError, TombstonedTaskError), which reschedule ignores. *)
reschedule(q, serial_id) ==
    IF serial_id \in Named(q) THEN q ELSE Append(q, serial_id)

IdleKick == [pc |-> "done", state |-> create_and_save_state, n |-> 0, existing |-> {}]

(* KickOffJobHandler.handle up to its first write: the MapreduceState is    *)
(* read and checked, and _get_input_readers reads the saved readers or      *)
(* splits the input.                                                        *)
kick_handle ==
    /\ Len(kick) < MaxKick
    /\ check_mr_state(mr)
    /\ LET n == IF readers # 0 THEN readers ELSE conf.input_readers
       IN  kick' = Append(kick,
                     IF n = 0
                     THEN [IdleKick EXCEPT !.pc = "nodata",
                             !.state = [mr EXCEPT !.active = FALSE,
                                                  !.result_status = "success"]]
                     ELSE [IdleKick EXCEPT !.pc = "save", !.n = n,
                             !.state = [mr EXCEPT !.shard_count = n,
                                                  !.active_shards = n]])
    /\ UNCHANGED <<conf, now, wvars, mr, readers, ctasks, ctl, effects>>

(* handle, lines 1460-1467: no input to process, the job is finalized. *)
kick_nodata(k) ==
    /\ kick[k].pc = "nodata"
    /\ finalize_job(kick[k].state, effects)
    /\ kick' = [kick EXCEPT ![k] = IdleKick]
    /\ UNCHANGED <<conf, now, wvars, readers, ctasks, ctl>>

(* KickOffJobHandler._save_states, a transaction; when an earlier run has   *)
(* saved already (None), the readers are read again from what it saved.     *)
kick_save(k) ==
    /\ kick[k].pc = "save"
    /\ IF ~check_mr_state(mr)
       THEN /\ kick' = [kick EXCEPT ![k] = IdleKick]
            /\ UNCHANGED <<mr, readers>>
       ELSE IF mr.active_shards # 0
       THEN /\ kick' = [kick EXCEPT ![k] =
                          IF readers = 0
                          THEN [@ EXCEPT !.pc = IF conf.input_readers = 0
                                                THEN "done" ELSE "get",
                                         !.n = conf.input_readers]
                          ELSE [@ EXCEPT !.pc = "get", !.n = readers,
                                         !.state = [@ EXCEPT !.shard_count = readers,
                                                             !.active_shards = readers]]]
            /\ UNCHANGED <<mr, readers>>
       ELSE /\ mr' = kick[k].state
            /\ readers' = kick[k].n
            /\ kick' = [kick EXCEPT ![k].pc = "get"]
    /\ UNCHANGED <<conf, now, wvars, ctasks, ctl, effects>>

(* KickOffJobHandler._schedule_shards, line 1619: the ShardStates that exist. *)
kick_get(k) ==
    /\ kick[k].pc = "get"
    /\ kick' = [kick EXCEPT ![k].pc = "put",
                            ![k].existing = DOMAIN shard \cap (1..kick[k].n)]
    /\ UNCHANGED <<conf, now, wvars, mr, readers, ctasks, ctl, effects>>

(* _schedule_shards that adds the tasks before it creates the writers: the  *)
(* FailJobError comes after the shards were scheduled.                      *)
kick_put_scheduling_before_writers(k) ==
    /\ kick[k].pc = "put"
    /\ LET new == (1..kick[k].n) \ kick[k].existing
       IN  shard' = [s \in DOMAIN shard \cup new |->
                       IF s \in new THEN create_new ELSE shard[s]]
    /\ wtasks' = wtasks \cup {tstate_new(s) : s \in 1..kick[k].n}
    /\ \/ /\ conf.output_writer
          /\ kick' = [kick EXCEPT ![k].pc = "fail"]
          /\ UNCHANGED ctasks
       \/ /\ ctasks' = reschedule(ctasks, 0)
          /\ kick' = [kick EXCEPT ![k] = IdleKick]
    /\ UNCHANGED <<conf, now, control, inv, granted, takeover, recovered, mr, readers, ctl, effects>>

(* _schedule_shards from line 1625 on: the missing ShardStates are put;     *)
(* then either the writer's create raises FailJobError, or the first task   *)
(* of every shard is added and handle adds the controller task 0.           *)
kick_put(k) ==
    /\ kick[k].pc = "put"
    /\ LET new == (1..kick[k].n) \ kick[k].existing
       IN  shard' = [s \in DOMAIN shard \cup new |->
                       IF s \in new THEN create_new ELSE shard[s]]
    /\ \/ /\ conf.output_writer
          /\ kick' = [kick EXCEPT ![k].pc = "fail"]
          /\ UNCHANGED <<wtasks, ctasks>>
       \/ /\ wtasks' = wtasks \cup {tstate_new(s) : s \in 1..kick[k].n}
          /\ ctasks' = reschedule(ctasks, 0)
          /\ kick' = [kick EXCEPT ![k] = IdleKick]
    /\ UNCHANGED <<conf, now, control, inv, granted, takeover, recovered, mr, readers, ctl, effects>>

(* A delivery of the kickoff task that the task queue handler answers with  *)
(* _drop_gracefully instead of handle.                                      *)
kick_drop_handle ==
    /\ Len(kick) < MaxKick
    /\ kick' = Append(kick, [IdleKick EXCEPT !.pc = "fail"])
    /\ UNCHANGED <<conf, now, wvars, mr, readers, ctasks, ctl, effects>>

(* KickOffJobHandler._drop_gracefully: the state is read and checked. *)
kick_drop_read(k) ==
    /\ kick[k].pc = "fail"
    /\ kick' = [kick EXCEPT ![k] =
                  IF check_mr_state(mr)
                  THEN [@ EXCEPT !.pc = "drop",
                                 !.state = [mr EXCEPT !.active = FALSE,
                                                      !.result_status = "failed"]]
                  ELSE IdleKick]
    /\ UNCHANGED <<conf, now, wvars, mr, readers, ctasks, ctl, effects>>

(* _drop_gracefully, lines 1504-1510: the abort command is stored and the   *)
(* job finalized as FAILED.                                                 *)
kick_drop_finalize(k) ==
    /\ kick[k].pc = "drop"
    /\ control' = "abort"
    /\ finalize_job(kick[k].state, effects)
    /\ kick' = [kick EXCEPT ![k] = IdleKick]
    /\ UNCHANGED <<conf, now, shard, wtasks, inv, granted, takeover, recovered, readers, ctasks, ctl>>

-----------------------------------------------------------------------------
(* The controller task: ControllerCallbackHandler.                          *)

(* The sum of the mapper calls counted by the ShardStates S of shards. *)
RECURSIVE SumCalls(_, _)
SumCalls(shards, S) ==
    IF S = {} THEN 0
    ELSE LET s == CHOOSE x \in S : TRUE
         IN  shards[s].calls + SumCalls(shards, S \ {s})

(* model.ShardState.find_all_by_mapreduce_state: the ShardStates as the     *)
(* iterator yields them, in an order that nothing here depends on.          *)
find_all_by_mapreduce_state(shards) ==
    {[i \in DOMAIN shards |-> shards[p[i]]] : p \in Permutations(DOMAIN shards)}

(* CountersMap.add_map, for the one counter of the model: the mapper calls. *)
add_map(counters_map, ss) == counters_map + ss.calls

(* The loop of _update_state_from_shard_states over shard_states, from the  *)
(* i-th ShardState on: add_map into the job's counters_map.                 *)
RECURSIVE add_maps(_, _, _)
add_maps(counters_map, shard_states, i) ==
    IF i > Cardinality(DOMAIN shard_states) THEN counters_map
    ELSE add_maps(add_map(counters_map, shard_states[i]), shard_states, i + 1)

(* CountersMap.clear *)
counters_map_clear(counters_map) == 0

CountActive(shards) == Cardinality({s \in DOMAIN shards : shards[s].active})

CountAborted(shards) ==
    Cardinality({s \in DOMAIN shards : shards[s].result_status = "aborted"})

CountFailed(shards) ==
    Cardinality({s \in DOMAIN shards : shards[s].result_status = "failed"})

(* _update_state_from_shard_states without counters_map.clear(). *)
update_state_keeping_counters(state, shards) ==
    LET active_shards == CountActive(shards)
        aborted_shards == CountAborted(shards)
        failed_shards == CountFailed(shards)
        total_shards == Cardinality(DOMAIN shards)
        active == active_shards > 0
    IN  [state EXCEPT !.active_shards = active_shards,
                      !.aborted_shards = aborted_shards,
                      !.failed_shards = failed_shards,
                      !.calls = add_maps(state.calls, shards, 1),
                      !.active = active,
                      !.result_status =
                          IF active THEN @
                          ELSE IF failed_shards > 0 \/ total_shards = 0 THEN "failed"
                          ELSE IF aborted_shards > 0 THEN "aborted"
                          ELSE "success"]

(* _update_state_from_shard_states that looks at the aborted shards first. *)
update_state_aborted_first(state, shards) ==
    LET active_shards == CountActive(shards)
        aborted_shards == CountAborted(shards)
        failed_shards == CountFailed(shards)
        total_shards == Cardinality(DOMAIN shards)
        active == active_shards > 0
    IN  [state EXCEPT !.active_shards = active_shards,
                      !.aborted_shards = aborted_shards,
                      !.failed_shards = failed_shards,
                      !.calls = add_maps(counters_map_clear(state.calls), shards, 1),
                      !.active = active,
                      !.result_status =
                          IF active THEN @
                          ELSE IF aborted_shards > 0 THEN "aborted"
                          ELSE IF failed_shards > 0 \/ total_shards = 0 THEN "failed"
                          ELSE "success"]

(* _update_state_from_shard_states, lines 1199-1247: the state the poll     *)
(* computes from the ShardStates it read.                                   *)
update_state_staying_active(state, shards) ==
    [state EXCEPT !.active_shards = CountActive(shards),
                  !.aborted_shards = CountAborted(shards),
                  !.failed_shards = CountFailed(shards),
                  !.calls = add_maps(counters_map_clear(state.calls), shards, 1)]

update_state_from_shard_states(state, shards) ==
    LET active_shards == CountActive(shards)
        aborted_shards == CountAborted(shards)
        failed_shards == CountFailed(shards)
        total_shards == Cardinality(DOMAIN shards)
        active == active_shards > 0
    IN  [state EXCEPT !.active_shards = active_shards,
                      !.aborted_shards = aborted_shards,
                      !.failed_shards = failed_shards,
                      !.calls = add_maps(counters_map_clear(state.calls), shards, 1),
                      !.active = active,
                      !.result_status =
                          IF active THEN @
                          ELSE IF failed_shards > 0 \/ total_shards = 0 THEN "failed"
                          ELSE IF aborted_shards > 0 THEN "aborted"
                          ELSE "success"]

(* A poll that issues the abort command only for missing ShardStates. *)
poll_aborts_only_when_shards_are_missing(state, shards, control_seen) ==
    Cardinality(DOMAIN shards) # state.shard_count

(* _update_state_from_shard_states, lines 1223-1236: the poll issues the    *)
(* abort command.                                                           *)
poll_aborts(state, shards, control_seen) ==
    \/ Cardinality(DOMAIN shards) # state.shard_count
    \/ ~control_seen /\ (CountFailed(shards) > 0 \/ CountAborted(shards) > 0)

(* The check of _update_state_from_shard_states._put_state on the freshly   *)
(* read state.                                                              *)
put_tx_unguarded(fresh) == TRUE

put_tx_ok(fresh) == fresh.active

IdleCtl == [pc |-> "done", serial |-> 0, state |-> create_and_save_state,
            control |-> FALSE, puts |-> {}]

(* handle without the check of state.active at lines 1176-1181: the         *)
(* delivery polls whatever the stored state.                                *)
ctl_handle_polling_ended_job(serial) ==
    /\ serial \in Named(ctasks)
    /\ Len(ctl) < MaxCtl
    /\ ctl' = Append(ctl, [IdleCtl EXCEPT !.pc = "poll", !.serial = serial,
                                          !.state = mr,
                                          !.control = (control = "abort")])
    /\ UNCHANGED <<conf, now, wvars, mr, readers, kick, ctasks, effects>>

(* The task queue delivers controller task serial and handle runs: db.get   *)
(* of the MapreduceState and the MapreduceControl.  For a job that is not   *)
(* active the run only schedules the clean up.                              *)
ctl_handle(serial) ==
    /\ serial \in Named(ctasks)
    /\ Len(ctl) < MaxCtl
    /\ IF ~mr.active
       THEN /\ effects.cleanup_task = 0
            /\ effects' = [effects EXCEPT !.cleanup_task = 1]
            /\ UNCHANGED ctl
       ELSE /\ ctl' = Append(ctl, [IdleCtl EXCEPT !.pc = "poll", !.serial = serial,
                                                  !.state = mr,
                                                  !.control = (control = "abort")])
            /\ UNCHANGED effects
    /\ UNCHANGED <<conf, now, wvars, mr, readers, kick, ctasks>>

(* handle, lines 1183-1184: the ShardStates are read and                    *)
(* _update_state_from_shard_states computes the state, issuing the abort    *)
(* command when shards are missing or failed.                               *)
ctl_poll(c) ==
    /\ ctl[c].pc = "poll"
    /\ \E shard_states \in find_all_by_mapreduce_state(shard) :
         ctl' = [ctl EXCEPT ![c].pc = "put",
                            ![c].state = update_state_from_shard_states(@, shard_states)]
    /\ control' = IF poll_aborts(ctl[c].state, shard, ctl[c].control)
                  THEN "abort" ELSE control
    /\ UNCHANGED <<conf, now, shard, wtasks, inv, granted, takeover, recovered, jvarsButCtl>>

(* _update_state_from_shard_states, lines 1238-1265, and handle, lines      *)
(* 1186-1188: a job with no active shard is finalized; otherwise the state  *)
(* is stored in a transaction and the next controller task added.           *)
ctl_put(c) ==
    /\ ctl[c].pc = "put"
    /\ LET state == ctl[c].state
       IN  IF ~state.active
           THEN /\ finalize_job(state, finalize_outputs(state, effects))
                /\ UNCHANGED ctasks
           ELSE /\ mr' = IF put_tx_ok(mr) THEN state ELSE mr
                /\ ctasks' = IF ctl[c].serial < MaxSerial
                             THEN reschedule(ctasks, ctl[c].serial + 1) ELSE ctasks
                /\ UNCHANGED effects
    /\ ctl' = [ctl EXCEPT ![c] = IdleCtl]
    /\ UNCHANGED <<conf, now, wvars, readers, kick>>

(* A delivery of a controller task that the task queue handler answers with *)
(* _drop_gracefully instead of handle: the state is read.                   *)
ctl_drop_handle(serial) ==
    /\ serial \in Named(ctasks)
    /\ Len(ctl) < MaxCtl
    /\ mr.active
    /\ ctl' = Append(ctl, [IdleCtl EXCEPT !.pc = "drop", !.serial = serial,
                             !.state = [mr EXCEPT !.active = FALSE,
                                                  !.result_status = "failed"]])
    /\ UNCHANGED <<conf, now, wvars, mr, readers, kick, ctasks, effects>>

(* ControllerCallbackHandler._drop_gracefully, lines 1146-1149: the active  *)
(* ShardStates are read and set for failure.                                *)
ctl_drop_read(c) ==
    /\ ctl[c].pc = "drop"
    /\ ctl' = [ctl EXCEPT ![c].pc = "dropput",
                          ![c].puts = {<<s, set_for_failure(shard[s])>> :
                                         s \in {x \in DOMAIN shard : shard[x].active}}]
    /\ UNCHANGED <<conf, now, wvars, mr, readers, kick, ctasks, effects>>

(* _drop_gracefully, line 1156: the failed ShardStates are put. *)
ctl_drop_put(c) ==
    /\ ctl[c].pc = "dropput"
    /\ shard' = [s \in DOMAIN shard |->
                   IF \E q \in ctl[c].puts : q[1] = s
                   THEN (CHOOSE q \in ctl[c].puts : q[1] = s)[2]
                   ELSE shard[s]]
    /\ ctl' = [ctl EXCEPT ![c].pc = "dropfin", ![c].puts = {}]
    /\ UNCHANGED <<conf, now, control, wtasks, inv, granted, takeover, recovered, mr, readers,
                   kick, ctasks, effects>>

(* _drop_gracefully, line 1161: the job is finalized as FAILED. *)
ctl_drop_finalize(c) ==
    /\ ctl[c].pc = "dropfin"
    /\ finalize_job(ctl[c].state, effects)
    /\ ctl' = [ctl EXCEPT ![c] = IdleCtl]
    /\ UNCHANGED <<conf, now, wvars, readers, kick, ctasks>>

(* FinalizeJobHandler.handle, run by the named finalize task: the           *)
(* MapreduceControl and the saved input readers are deleted.                *)
FinalizeJob ==
    /\ effects.cleanup_task = 1
    /\ control' = "none"
    /\ readers' = 0
    /\ UNCHANGED <<conf, now, shard, wtasks, inv, granted, takeover, recovered, mr, kick,
                   ctasks, ctl, effects>>

-----------------------------------------------------------------------------
(* The specifications. *)

Confs ==
    [SHARD_MAX_ATTEMPTS : {2}, TASK_MAX_DATA_PROCESSING_ATTEMPTS : {2},
     supports_shard_retry : {TRUE}, supports_slice_recovery : BOOLEAN,
     handler_always_fails : {FALSE}, handler_never_raises : {FALSE},
     input_readers : {1},
     output_writer : {TRUE}, done_callback : {TRUE}]

ConfsRetry ==
    [SHARD_MAX_ATTEMPTS : {1, 2}, TASK_MAX_DATA_PROCESSING_ATTEMPTS : {1, 2},
     supports_shard_retry : BOOLEAN, supports_slice_recovery : BOOLEAN,
     handler_always_fails : {TRUE}, handler_never_raises : {FALSE},
     input_readers : {1},
     output_writer : {TRUE}, done_callback : {TRUE}]

(* The job after kickoff: one shard, its first task queued. *)
InitAfterKickoff ==
    /\ now = 1
    /\ shard = [s \in {1} |-> create_new]
    /\ control = "none"
    /\ wtasks = {tstate_new(1)}
    /\ inv = <<>>
    /\ granted = {}
    /\ takeover = {}
    /\ recovered = {}
    /\ mr = [create_and_save_state EXCEPT !.active_shards = 1, !.shard_count = 1]
    /\ readers = 1
    /\ kick = <<>>
    /\ ctasks = <<0>>
    /\ ctl = <<>>
    /\ effects = NoEffects

Init ==
    /\ conf \in Confs
    /\ InitAfterKickoff

WorkerNext(limit) ==
    \/ \E t \in wtasks : handle_read(t, limit)
    \/ \E w \in 1..Len(inv) : try_acquire_lease_tx(w)
    \/ \E w \in 1..Len(inv) : handle_return(w)
    \/ \E w \in 1..Len(inv) : save_tx_error(w)
    \/ \E w \in 1..Len(inv) : Crash(w)
    \/ AbortJob
    \/ Tick

Next == WorkerNext(MaxInv)

(* One shard whose handler fails on every attempt. *)
InitRetry ==
    /\ conf \in ConfsRetry
    /\ InitAfterKickoff

NextRetry == WorkerNext(MaxInvRetry)

SpecRetry == InitRetry /\ [][NextRetry]_vars

(* One shard whose slices may be attempted three times. *)
ConfsSlice ==
    [SHARD_MAX_ATTEMPTS : {2}, TASK_MAX_DATA_PROCESSING_ATTEMPTS : {3},
     supports_shard_retry : {TRUE}, supports_slice_recovery : BOOLEAN,
     handler_always_fails : {FALSE}, handler_never_raises : {FALSE},
     input_readers : {1},
     output_writer : {TRUE}, done_callback : {TRUE}]

InitSlice ==
    /\ conf \in ConfsSlice
    /\ InitAfterKickoff

NextSlice == WorkerNext(MaxInvSlice)

SpecSlice == InitSlice /\ [][NextSlice]_vars

(* _try_acquire_lease on its inputs: a stored ShardState (or none), the     *)
(* payload of one queued task, the clock and the request that stamped the   *)
(* stored lease, still running or ended.                                    *)
StoredStates ==
    {[create_new EXCEPT !.active = a, !.retries = r, !.slice_id = i,
                        !.result_status = IF a THEN "none" ELSE "failed",
                        !.slice_start_time = st,
                        !.slice_request_id = IF st = NoTime THEN NoReq ELSE 1,
                        !.acquired_once = (st # NoTime)] :
        a \in BOOLEAN, r \in 0..MaxRetries, i \in 0..MaxSliceId,
        st \in {NoTime} \cup 1..MaxTime}

Payloads ==
    {[tstate_new(1) EXCEPT !.retries = r, !.slice_id = i] :
        r \in 0..MaxRetries, i \in 0..MaxSliceId}

InitValidate ==
    /\ conf \in Confs
    /\ now \in 1..MaxTime
    /\ shard \in {[s \in {} |-> create_new]} \cup
                 {[s \in {1} |-> ss] : ss \in {x \in StoredStates :
                                                  x.slice_start_time <= now}}
    /\ control = "none"
    /\ wtasks \in {{t} : t \in Payloads}
    /\ inv \in {<<IdleInv>>, <<[IdleInv EXCEPT !.pc = "run"]>>}
    /\ granted = {}
    /\ takeover = {}
    /\ recovered = {}
    /\ mr = [create_and_save_state EXCEPT !.active_shards = 1, !.shard_count = 1]
    /\ readers = 1
    /\ kick = <<>>
    /\ ctasks = <<0>>
    /\ ctl = <<>>
    /\ effects = NoEffects

NextValidate ==
    \/ \E t \in wtasks : handle_read(t, MaxInvValidate)
    \/ \E t \in wtasks : handle_refused(t, MaxInvValidate)
    \/ \E w \in 1..Len(inv) : try_acquire_lease_tx(w)

SpecValidate == InitValidate /\ [][NextValidate]_vars

(* One shard under fair delivery: every task queued is delivered again      *)
(* until a delivery of it ends the request normally, every request runs to  *)
(* its end, and the datastore commits what it is asked to commit.           *)
NextAbort ==
    \/ \E t \in wtasks : handle_read(t, MaxInvAbort)
    \/ \E w \in 1..Len(inv) : try_acquire_lease_tx(w)
    \/ \E w \in 1..Len(inv) : handle_return(w)
    \/ AbortJob
    \/ Tick
    \/ request_forgotten

ConfsAbort ==
    [SHARD_MAX_ATTEMPTS : {2}, TASK_MAX_DATA_PROCESSING_ATTEMPTS : {2},
     supports_shard_retry : {TRUE}, supports_slice_recovery : {FALSE},
     handler_always_fails : {FALSE}, handler_never_raises : {FALSE},
     input_readers : {1},
     output_writer : {TRUE}, done_callback : {TRUE}]

InitAbort ==
    /\ conf \in ConfsAbort
    /\ InitAfterKickoff

FairDelivery ==
    /\ WF_vars(\E t \in wtasks : handle_read(t, MaxInvAbort))
    /\ WF_vars(\E w \in 1..Len(inv) : try_acquire_lease_tx(w))
    /\ WF_vars(\E w \in 1..Len(inv) : handle_return(w))
    /\ WF_vars(request_forgotten)

SpecAbort == InitAbort /\ [][NextAbort]_vars /\ FairDelivery

ConfsJob ==
    [SHARD_MAX_ATTEMPTS : {1}, TASK_MAX_DATA_PROCESSING_ATTEMPTS : {1},
     supports_shard_retry : {FALSE}, supports_slice_recovery : {FALSE},
     handler_always_fails : {FALSE}, handler_never_raises : {FALSE},
     input_readers : 0..MaxShards,
     output_writer : {TRUE}, done_callback : {TRUE}]

(* The job as StartJobHandler._start_map leaves it: the MapreduceState      *)
(* saved, the kickoff task queued.                                          *)
InitJob ==
    /\ conf \in ConfsJob
    /\ now = 1
    /\ shard = [s \in {} |-> create_new]
    /\ control = "none"
    /\ wtasks = {}
    /\ inv = <<>>
    /\ granted = {}
    /\ takeover = {}
    /\ recovered = {}
    /\ mr = create_and_save_state
    /\ readers = 0
    /\ kick = <<>>
    /\ ctasks = <<>>
    /\ ctl = <<>>
    /\ effects = NoEffects

NextJob ==
    \/ kick_handle
    \/ kick_drop_handle
    \/ \E k \in 1..Len(kick) : kick_nodata(k)
    \/ \E k \in 1..Len(kick) : kick_save(k)
    \/ \E k \in 1..Len(kick) : kick_get(k)
    \/ \E k \in 1..Len(kick) : kick_put(k)
    \/ \E k \in 1..Len(kick) : kick_drop_read(k)
    \/ \E k \in 1..Len(kick) : kick_drop_finalize(k)
    \/ \E t \in wtasks : handle_read(t, MaxInvJob)
    \/ \E w \in 1..Len(inv) : try_acquire_lease_tx(w)
    \/ \E w \in 1..Len(inv) : handle_return(w)
    \/ \E c \in Named(ctasks) : ctl_handle(c)
    \/ \E c \in Named(ctasks) : ctl_drop_handle(c)
    \/ \E c \in 1..Len(ctl) : ctl_poll(c)
    \/ \E c \in 1..Len(ctl) : ctl_put(c)
    \/ \E c \in 1..Len(ctl) : ctl_drop_read(c)
    \/ \E c \in 1..Len(ctl) : ctl_drop_put(c)
    \/ \E c \in 1..Len(ctl) : ctl_drop_finalize(c)
    \/ AbortJob
    \/ FinalizeJob

(* The worker with fair redelivery: the task queue delivers every worker    *)
(* task again as long as deliveries remain, and a delivery that passed the  *)
(* checks of _try_acquire_lease goes on to the lease transaction.  Nothing  *)
(* is assumed of the holder of a lease: it may crash, and its save may fail. *)
WorkerTasks ==
    [shard : 1..MaxShards, slice_id : 0..(2 * MaxInv),
     retries : 0..MaxRetries, pos : 0..InputLen]

FairRedelivery ==
    /\ \A t \in WorkerTasks : WF_vars(handle_read(t, MaxInv))
    /\ WF_vars(\E w \in 1..Len(inv) : try_acquire_lease_tx(w))

SpecLease == Init /\ [][Next]_vars /\ FairRedelivery

(* The controller alone, polling shards in every combination of outcomes:   *)
(* each ShardState is active, or ended with SUCCESS, FAILED or ABORTED,     *)
(* with some mapper calls counted; the abort command is stored or not; the  *)
(* MapreduceState carries the counters of an earlier poll.  Fewer           *)
(* ShardStates than the job's shard_count, or none, are found when entities *)
(* were deleted from the datastore (CleanUpJobHandler deletes them one      *)
(* entity group at a time, before the MapreduceState).                      *)
ShardOutcomes ==
    {[create_new EXCEPT !.active = (r = "none"), !.result_status = r, !.calls = n] :
        r \in {"none", "success", "failed", "aborted"}, n \in 0..InputLen}

InitPoll ==
    /\ conf \in ConfsJob
    /\ conf.input_readers > 0
    /\ now = 1
    /\ \E n \in 0..MaxPollShards : shard \in [1..n -> ShardOutcomes]
    /\ control \in {"none", "abort"}
    /\ wtasks = {}
    /\ inv = <<>>
    /\ granted = {}
    /\ takeover = {}
    /\ recovered = {}
    /\ \E n \in 0..InputLen :
         mr = [create_and_save_state EXCEPT !.active_shards = MaxPollShards,
                                            !.shard_count = MaxPollShards,
                                            !.calls = n]
    /\ readers = MaxPollShards
    /\ kick = <<>>
    /\ ctasks = <<0>>
    /\ ctl = <<>>
    /\ effects = NoEffects

NextPoll ==
    \/ \E c \in Named(ctasks) : ctl_handle(c)
    \/ \E c \in 1..Len(ctl) : ctl_poll(c)
    \/ \E c \in 1..Len(ctl) : ctl_put(c)

SpecPoll == InitPoll /\ [][NextPoll]_vars

(* A job of two shards of which the first has ended FAILED or ABORTED and   *)
(* the second has not started: the worker deliveries of the second shard    *)
(* beside the polls of the controller, no abort command stored yet.         *)
InitPollAbort ==
    /\ conf \in ConfsJob
    /\ conf.input_readers > 0
    /\ now = 1
    /\ \E ended \in {ss \in ShardOutcomes : ss.result_status \in {"failed", "aborted"}} :
         shard = <<ended, create_new>>
    /\ control = "none"
    /\ wtasks = {tstate_new(2)}
    /\ inv = <<>>
    /\ granted = {}
    /\ takeover = {}
    /\ recovered = {}
    /\ mr = [create_and_save_state EXCEPT !.active_shards = 2, !.shard_count = 2]
    /\ readers = 2
    /\ kick = <<>>
    /\ ctasks = <<0>>
    /\ ctl = <<>>
    /\ effects = NoEffects

NextPollAbort ==
    \/ \E t \in wtasks : handle_read(t, MaxInvJob)
    \/ \E w \in 1..Len(inv) : try_acquire_lease_tx(w)
    \/ \E w \in 1..Len(inv) : handle_return(w)
    \/ \E c \in Named(ctasks) : ctl_handle(c)
    \/ \E c \in 1..Len(ctl) : ctl_poll(c)
    \/ \E c \in 1..Len(ctl) : ctl_put(c)

SpecPollAbort == InitPollAbort /\ [][NextPollAbort]_vars

(* The job after kickoff with a handler that never raises, no abort         *)
(* command, no failing datastore and no crash: worker deliveries beside the *)
(* polls of the controller.  The task queue delivers every task again      *)
(* until a delivery of it succeeded, and every started request runs to its  *)
(* end, so the steps are weakly fair.  Controller tasks past MaxSerial are  *)
(* stood for by further deliveries of the last task.                        *)
ConfsProgress ==
    [SHARD_MAX_ATTEMPTS : {2}, TASK_MAX_DATA_PROCESSING_ATTEMPTS : {2},
     supports_shard_retry : {TRUE}, supports_slice_recovery : BOOLEAN,
     handler_always_fails : {FALSE}, handler_never_raises : {TRUE},
     input_readers : {1},
     output_writer : {TRUE}, done_callback : {TRUE}]

InitProgress ==
    /\ conf \in ConfsProgress
    /\ InitAfterKickoff

(* The request of the newest worker delivery is over and no stored or read  *)
(* ShardState names its REQUEST_LOG_ID: the next delivery is numbered with  *)
(* it.                                                                      *)
request_ended ==
    /\ Len(inv) > 0
    /\ inv[Len(inv)].pc = "done"
    /\ \A s \in DOMAIN shard : shard[s].slice_request_id # Len(inv)
    /\ \A w \in 1..Len(inv) : inv[w].ss.slice_request_id # Len(inv)
    /\ inv' = SubSeq(inv, 1, Len(inv) - 1)
    /\ UNCHANGED <<conf, now, shard, control, wtasks, granted, takeover, recovered>>
    /\ UNCHANGED jvars

(* The request of the newest controller delivery is over. *)
ctl_request_ended ==
    /\ Len(ctl) > 0
    /\ ctl[Len(ctl)].pc = "done"
    /\ ctl' = SubSeq(ctl, 1, Len(ctl) - 1)
    /\ UNCHANGED <<conf, now, wvars, mr, readers, kick, ctasks, effects>>

NextProgress ==
    \/ \E t \in wtasks : handle_read(t, MaxInvJob)
    \/ \E w \in 1..Len(inv) : try_acquire_lease_tx(w)
    \/ \E w \in 1..Len(inv) : handle_return(w)
    \/ request_ended
    \/ \E c \in Named(ctasks) : ctl_handle(c)
    \/ \E c \in 1..Len(ctl) : ctl_poll(c)
    \/ \E c \in 1..Len(ctl) : ctl_put(c)
    \/ ctl_request_ended

ProgressTasks ==
    [shard : 1..MaxShards, slice_id : 0..(InputLen + 1), retries : {0},
     pos : 0..InputLen]

FairProgress ==
    /\ \A t \in ProgressTasks : WF_vars(handle_read(t, MaxInvJob))
    /\ WF_vars(\E w \in 1..Len(inv) : try_acquire_lease_tx(w))
    /\ WF_vars(\E w \in 1..Len(inv) : handle_return(w))
    /\ WF_vars(request_ended)
    /\ \A c \in 0..MaxSerial : WF_vars(ctl_handle(c))
    /\ WF_vars(\E c \in 1..Len(ctl) : ctl_poll(c))
    /\ WF_vars(\E c \in 1..Len(ctl) : ctl_put(c))
    /\ WF_vars(ctl_request_ended)

SpecProgress == InitProgress /\ [][NextProgress]_vars /\ FairProgress

(* MapperWorkerCallbackHandler._drop_gracefully: the task queue handler     *)
(* answers a delivery of a worker task that is past its retry limit with    *)
(* _drop_gracefully instead of handle.  The ShardState is read (db.get,     *)
(* line 207).                                                               *)
worker_drop_read(t, limit) ==
    /\ t \in wtasks
    /\ Len(inv) < limit
    /\ t.shard \in DOMAIN shard
    /\ inv' = Append(inv, [IdleInv EXCEPT !.pc = "drop", !.t = t,
                                          !.ss = shard[t.shard]])
    /\ UNCHANGED <<conf, now, shard, control, wtasks, granted, takeover, recovered>>
    /\ UNCHANGED jvars

(* _drop_gracefully, lines 211-213: the state that was read active is set   *)
(* for failure and put, outside any transaction.                            *)
worker_drop_put(w) ==
    /\ inv[w].pc = "drop"
    /\ shard' = IF inv[w].ss.active
                THEN [shard EXCEPT ![inv[w].t.shard] = set_for_failure(inv[w].ss)]
                ELSE shard
    /\ inv' = [inv EXCEPT ![w] = IdleInv]
    /\ UNCHANGED <<conf, now, control, wtasks, granted, takeover, recovered>>
    /\ UNCHANGED jvars

(* The deliveries of the worker tasks of one shard, some of them answered   *)
(* with _drop_gracefully.                                                   *)
NextDrop ==
    \/ WorkerNext(MaxInv)
    \/ \E t \in wtasks : worker_drop_read(t, MaxInv)
    \/ \E w \in 1..Len(inv) : worker_drop_put(w)

SpecDrop == Init /\ [][NextDrop]_vars

SpecJob == InitJob /\ [][NextJob]_vars

Spec == Init /\ [][Next]_vars

-----------------------------------------------------------------------------
(* The claims. *)

Invs == 1..Len(inv)

Holders(s) == {w \in Invs : inv[w].pc = "run" /\ inv[w].t.shard = s}

SameTask(a, b) == a[1] = b[1] /\ a[2] = b[2] /\ a[3] = b[3]

(* The delivery w gets PROCEED_TASK from _try_acquire_lease in this step. *)
Acquires(w) == inv[w].pc = "lease" /\ inv'[w].pc = "run"

(* The delivery w ends in this step, having held the lease. *)
Returns(w) == inv[w].pc = "run" /\ inv'[w].pc = "done"

(* The step changed the stored ShardState of s otherwise than by releasing  *)
(* the lease (_try_free_lease): it is a commit of the final persist step.   *)
Commits(s) ==
    /\ shard'[s] # shard[s]
    /\ shard'[s] # try_free_lease(shard[s], TRUE)
    /\ shard'[s] # try_free_lease(shard[s], FALSE)

(* C1, as claimed: of the deliveries of one worker task (shard_id,         *)
(* slice_id, retries), at most one ever gets PROCEED_TASK from              *)
(* _try_acquire_lease.                                                      *)
C1_AtMostOneProceedPerTask ==
    \A a, b \in granted : SameTask(a, b) => a = b

(* C1, amended: a delivery gets PROCEED_TASK only when the stored           *)
(* ShardState holds no lease, or a lease at least _MAX_LEASE_DURATION_SEC   *)
(* old, or a lease at least _LEASE_DURATION_SEC old whose request has       *)
(* ended; while a younger lease is stored no delivery gets PROCEED_TASK.    *)
C1_ProceedOnlyOnFreeOrExpiredLease ==
    [][\A w \in Invs :
         Acquires(w) =>
           LET f == shard[inv[w].t.shard]
           IN  \/ f.slice_start_time = NoTime
               \/ now - f.slice_start_time >= MAX_LEASE_DURATION_SEC
               \/ /\ now - f.slice_start_time >= LEASE_DURATION_SEC
                  /\ Ended(f.slice_request_id)]_vars

(* C1, witness: a delivery holds a lease younger than _LEASE_DURATION_SEC   *)
(* while another delivery of the same task, which read the state before     *)
(* the lease was taken, stands before its lease transaction; and one task   *)
(* has had two deliveries that got PROCEED_TASK.                            *)
C1_Witness ==
    \/ \E w1, w2 \in Invs :
         /\ inv[w1].pc = "run" /\ inv[w2].pc = "lease"
         /\ inv[w1].t = inv[w2].t
         /\ shard[inv[w1].t.shard].slice_request_id = w1
         /\ now - shard[inv[w1].t.shard].slice_start_time < LEASE_DURATION_SEC
         /\ \E a, b \in granted : SameTask(a, b) /\ a # b

(* C2, as claimed: no two deliveries are at once between their lease        *)
(* acquisition and their commit or release on one shard.                    *)
C2_AtMostOneExecutor ==
    \A s \in DOMAIN shard : Cardinality(Holders(s)) <= 1

(* C2, amended: two executors are active on one shard at once only after   *)
(* a delivery took over the lease of a delivery that was still running; and *)
(* that happens only once the lease is at least _MAX_LEASE_DURATION_SEC     *)
(* old.  A crashed holder, and a holder that is slow for less than          *)
(* _MAX_LEASE_DURATION_SEC, never has a second executor beside it.          *)
C2_TwoExecutorsOnlyAfterMaxLeaseTakeover ==
    \A s \in DOMAIN shard : Cardinality(Holders(s)) > 1 => s \in takeover

(* C2, witness: two deliveries hold the lease of one shard at once. *)
C2_Witness ==
    \E s \in DOMAIN shard : Cardinality(Holders(s)) = 2

(* C3, as claimed: a delivery whose lease is no longer the stored one (the  *)
(* stored slice_id or slice_start_time differs from what its lease set)     *)
(* leaves slice_id, retries, counters, active and result_status as stored   *)
(* and enqueues no task when it ends.                                       *)
C3_StaleWorkerNeverOverwrites ==
    [][\A w \in Invs :
         LET s == inv[w].t.shard
         IN  (/\ Returns(w)
              /\ \/ shard[s].slice_id # inv[w].ss.slice_id
                 \/ shard[s].slice_start_time # inv[w].ss.slice_start_time)
             => /\ shard'[s].slice_id = shard[s].slice_id
                /\ shard'[s].retries = shard[s].retries
                /\ shard'[s].calls = shard[s].calls
                /\ shard'[s].active = shard[s].active
                /\ shard'[s].result_status = shard[s].result_status
                /\ wtasks' = wtasks]_vars

C6_OutputsFinalizedOnce ==
    effects.finalize_outputs <= 1

(* C7: the done callback task is enqueued at most once, and a call of       *)
(* _finalize_job that finds the stored job inactive leaves the stored       *)
(* MapreduceState as it is and enqueues no done callback task.              *)
C7_FinalizeJobIdempotent ==
    [][/\ effects'.done_task <= 1
       /\ (effects'.finalize_job > effects.finalize_job /\ ~mr.active)
            => (mr' = mr /\ effects'.done_task = effects.done_task)]_vars

(* C7, witness: _finalize_job has been called twice for a job with a done   *)
(* callback, and one done callback task has been enqueued.                  *)
C7_Witness ==
    /\ conf.done_callback
    /\ effects.finalize_job >= 2
    /\ effects.done_task = 1

(* C8: a stored MapreduceState that is not active has its result_status     *)
(* set, and no step changes that result_status or makes the job active.     *)
C8_InactiveJobIsFinal ==
    [][~mr.active => /\ mr.result_status # "none"
                     /\ ~mr'.active
                     /\ mr'.result_status = mr.result_status]_vars

(* C8, witness: the job ended SUCCESS through one controller poll, and a    *)
(* second _finalize_job, of a graceful drop that had read the job active    *)
(* and would store FAILED, has run.                                         *)
C8_Witness ==
    /\ ~mr.active
    /\ mr.result_status = "success"
    /\ effects.finalize_outputs = 1
    /\ effects.finalize_job >= 2

(* C9, as claimed: in every stored MapreduceState,                          *)
(* active = (active_shards > 0).                                            *)
C9_ActiveIffActiveShards ==
    mr.active = (mr.active_shards > 0)

(* C9, amended: the MapreduceState that kickoff's _save_states stores, and  *)
(* every MapreduceState a controller poll stores (by _put_state or by       *)
(* _finalize_job), has active = (active_shards > 0).                        *)
C9_PollAndKickoffStoreActiveIffActiveShards ==
    [][/\ \A k \in 1..Len(kick) :
            (kick[k].pc = "save" /\ kick'[k].pc # "save" /\ mr' # mr)
              => mr'.active = (mr'.active_shards > 0)
       /\ \A c \in 1..Len(ctl) :
            (ctl[c].pc = "put" /\ ctl'[c].pc # "put" /\ mr' # mr)
              => mr'.active = (mr'.active_shards > 0)]_vars

(* C9, witness: a controller poll stored the state of a job whose shard has *)
(* processed input and is still active.                                     *)
C9_Witness ==
    /\ mr.active
    /\ mr.active_shards = 1
    /\ mr.calls > 0

(* C10, as claimed: a delivery that read the ABORT command never acquires   *)
(* the lease.                                                               *)
C10_AbortWithoutLease ==
    \A w \in Invs : inv[w].abort => inv[w].pc # "run"

(* C10, amended: a shard is set ABORTED only by a delivery that read the    *)
(* ABORT command and got PROCEED_TASK from _try_acquire_lease (it holds the *)
(* lease); and such a delivery, when it ends with a write, writes ABORTED   *)
(* or only releases its lease.                                              *)
C10_AbortOnlyAfterLease ==
    [][/\ \A s \in DOMAIN shard :
            (shard'[s].result_status = "aborted" /\ shard[s].result_status # "aborted")
              => \E w \in Holders(s) :
                    /\ inv[w].abort /\ Returns(w)
                    /\ \E g \in granted : g[1] = s /\ g[4] = w
       /\ \A w \in Invs :
            LET s == inv[w].t.shard
            IN  (Returns(w) /\ inv[w].abort /\ Commits(s))
                  => /\ shard'[s].result_status = "aborted"
                     /\ ~shard'[s].active]_vars

(* C10, witness: the shard is ABORTED, and its stored lease fields show     *)
(* the lease the aborting delivery had taken.                               *)
C10_Witness ==
    \E s \in DOMAIN shard :
        /\ shard[s].result_status = "aborted"
        /\ shard[s].slice_start_time # NoTime
        /\ shard[s].slice_request_id \in Invs

(* The stored ShardState of s names the delivery w as its lease holder.     *)
StoredLeaseOf(s, w) ==
    /\ shard[s].active
    /\ shard[s].slice_start_time # NoTime
    /\ shard[s].slice_request_id = w

(* What the delivery w may leave in the datastore when it ends normally:    *)
(* the state _set_state computes from one outcome of its slice, or, for     *)
(* RETRY_SLICE, the stored state with the lease released.                   *)
NormalResults(w) ==
    {IF o.d = "retry_slice" /\ set_state(o.ss, o.t, o.d).d = "retry_slice"
         THEN try_free_lease(shard[inv[w].t.shard], TRUE)
         ELSE set_state(o.ss, o.t, o.d).ss : o \in slice_outcomes(w)}

(* C11: abort is cooperative.  A delivery that read no abort command and    *)
(* holds the stored lease when the command is there ends its slice as it    *)
(* would have without the command: what it stores is a normal result of     *)
(* its slice, never ABORTED.  A delivery that read the command and got the  *)
(* lease leaves the shard ABORTED and inactive.  Under fair delivery, once  *)
(* the abort command is stored every shard eventually becomes inactive.     *)
C11_CooperativeAbort ==
    /\ [][\A w \in Invs :
             LET s == inv[w].t.shard
             IN  /\ (Returns(w) /\ control = "abort" /\ ~inv[w].abort
                       /\ StoredLeaseOf(s, w))
                     => /\ shard'[s] \in NormalResults(w)
                        /\ shard'[s] # shard[s]
                        /\ shard'[s].result_status # "aborted"
                 /\ (Returns(w) /\ inv[w].abort /\ shard[s].active)
                     => /\ ~shard'[s].active
                        /\ shard'[s].result_status = "aborted"]_vars
    /\ (control = "abort") ~> (\A s \in DOMAIN shard : ~shard[s].active)

(* C11: the abort command is stored while a delivery that read none holds   *)
(* the lease and is in the middle of its slice.                             *)
C11_Witness ==
    /\ control = "abort"
    /\ \E w \in Invs :
         /\ inv[w].pc = "run"
         /\ ~inv[w].abort
         /\ StoredLeaseOf(inv[w].t.shard, w)

(* The step delivers a task: a request is added to inv.  Delivered is the   *)
(* added request, with the task and the ShardState it read.                 *)
Delivers == Len(inv') = Len(inv) + 1

Delivered == inv'[Len(inv')]

ReadPresent == Delivered.t.shard \in DOMAIN shard

(* C12: the checks of _try_acquire_lease decide in this order: no stored    *)
(* state, DROP_TASK; inactive, DROP_TASK; stored retries above the task's,  *)
(* DROP_TASK; below, RETRY_TASK; stored slice_id above the task's,          *)
(* DROP_TASK; below, RETRY_TASK; the delivery goes on to the lease only     *)
(* when retries and slice_id both match.                                    *)
C12_ValidationOrder ==
    [][Delivers =>
         LET r == Delivered
             ss == r.ss
             t == r.t
         IN  /\ ~ReadPresent => r.pc = "drop_task"
             /\ (ReadPresent /\ ~ss.active) => r.pc = "drop_task"
             /\ (ReadPresent /\ ss.active /\ ss.retries > t.retries)
                   => r.pc = "drop_task"
             /\ (ReadPresent /\ ss.active /\ ss.retries < t.retries)
                   => r.pc = "retry_task"
             /\ (ReadPresent /\ ss.active /\ ss.retries = t.retries
                   /\ ss.slice_id > t.slice_id) => r.pc = "drop_task"
             /\ (ReadPresent /\ ss.active /\ ss.retries = t.retries
                   /\ ss.slice_id < t.slice_id) => r.pc = "retry_task"
             /\ r.pc = "lease"
                   => /\ ReadPresent /\ ss.active
                      /\ ss.retries = t.retries /\ ss.slice_id = t.slice_id
             /\ ReadPresent => ss = shard[t.shard]]_vars

(* C12: a task with retries = 2 was delivered against stored retries = 1    *)
(* and a stored slice_id above the task's, and got RETRY_TASK.              *)
C12_Witness ==
    \E w \in Invs :
        /\ inv[w].pc = "retry_task"
        /\ inv[w].t.retries = 2
        /\ inv[w].ss.retries = 1
        /\ inv[w].ss.active
        /\ inv[w].ss.slice_id > inv[w].t.slice_id

(* The delivered task matches the stored state, which holds a lease.        *)
ReadHeldLease ==
    /\ ReadPresent
    /\ Delivered.ss.active
    /\ Delivered.ss.retries = Delivered.t.retries
    /\ Delivered.ss.slice_id = Delivered.t.slice_id
    /\ Delivered.ss.slice_start_time # NoTime

(* C13: against a held lease on the matching slice, a delivery gets         *)
(* RETRY_TASK while the lease is younger than _LEASE_DURATION_SEC; from     *)
(* then until _MAX_LEASE_DURATION_SEC it gets RETRY_TASK unless the Logs    *)
(* API reports the stamped request finished, which it does only of an ended *)
(* request, and then the delivery goes on to the lease transaction; from    *)
(* _MAX_LEASE_DURATION_SEC on it goes on to the lease transaction whatever  *)
(* became of the stamped request.                                           *)
C13_HeldLeaseDecision ==
    [][(Delivers /\ ReadHeldLease) =>
         LET r == Delivered
             age == now - r.ss.slice_start_time
         IN  /\ age < LEASE_DURATION_SEC => r.pc = "retry_task"
             /\ (age >= LEASE_DURATION_SEC /\ age < MAX_LEASE_DURATION_SEC)
                   => /\ r.pc \in {"retry_task", "lease"}
                      /\ r.pc = "lease" => Ended(r.ss.slice_request_id)
                      /\ ~Ended(r.ss.slice_request_id) => r.pc = "retry_task"
             /\ age >= MAX_LEASE_DURATION_SEC => r.pc = "lease"]_vars

(* C13: a delivery went on to the lease transaction against a lease of an   *)
(* age between the two durations whose request had ended, and another       *)
(* delivery of the same task against the same lease, to which the Logs API  *)
(* did not report the request finished, got RETRY_TASK.                     *)
C13_Witness ==
    \E w \in Invs :
        /\ inv[w].pc = "lease"
        /\ inv[w].ss.slice_start_time # NoTime
        /\ now - inv[w].ss.slice_start_time = LEASE_DURATION_SEC
        /\ Ended(inv[w].ss.slice_request_id)
        /\ \E v \in Invs : /\ inv[v].pc = "retry_task"
                            /\ inv[v].ss = inv[w].ss
                            /\ inv[v].t = inv[w].t

(* The delivery w gets RETRY_TASK from the lease transaction in this step.  *)
Contends(w) == inv[w].pc = "lease" /\ inv'[w].pc = "done"

(* C14: a delivery that gets DROP_TASK or RETRY_TASK, from the checks of    *)
(* _try_acquire_lease or from its transaction, leaves every stored          *)
(* ShardState as it was and adds no task to the queue.                      *)
C14_RefusedDeliveryWritesNothing ==
    [][/\ (Delivers /\ Delivered.pc \in {"drop_task", "retry_task"})
            => (shard' = shard /\ wtasks' = wtasks)
       /\ \A w \in Invs :
            Contends(w) => (shard' = shard /\ wtasks' = wtasks)]_vars

(* C14: a task was delivered against a stored slice_id above its own by one *)
(* and got DROP_TASK, and the stored state is the one the delivery read.    *)
C14_Witness ==
    \E w \in Invs :
        /\ inv[w].pc = "drop_task"
        /\ inv[w].ss.active
        /\ inv[w].ss.retries = inv[w].t.retries
        /\ inv[w].ss.slice_id = inv[w].t.slice_id + 1
        /\ inv[w].t.shard \in DOMAIN shard
        /\ shard[inv[w].t.shard] = inv[w].ss

(* The worker task that continues the stored state ss of shard s is, or     *)
(* has been, in the queue.                                                  *)
TaskOf(s, ss, tasks) ==
    \E t \in tasks :
        t.shard = s /\ t.slice_id = ss.slice_id /\ t.retries = ss.retries

C16_RecoveredSliceSkipped ==
    [][\A w \in Invs :
         LET s == inv[w].t.shard
             t == inv[w].t
         IN  /\ (Returns(w) /\ recovered' # recovered)
                   => shard'[s].slice_id = t.slice_id + 2
             /\ Acquires(w) => <<s, t.slice_id - 1, t.retries>> \notin recovered]_vars

(* The delivery w holds a lease it got on a shard whose stored              *)
(* acquired_once was already set, and the writer supports slice recovery.   *)
InRecoverySlice(w) ==
    /\ inv[w].pc = "run"
    /\ inv[w].is_this_a_retry
    /\ conf.supports_slice_recovery

SliceRetried(s) ==
    /\ shard'[s] # shard[s]
    /\ shard'[s] # try_free_lease(shard[s], FALSE)
    /\ shard'[s].active
    /\ shard'[s].slice_id = shard[s].slice_id
    /\ shard'[s].retries = shard[s].retries

(* The slice of the delivery w is one in which the handler is run on input: *)
(* no abort was read, the input is not finished, and the slice is not a     *)
(* recovery slice.                                                          *)
HandlerRuns(w) ==
    /\ inv[w].pc = "run"
    /\ ~inv[w].abort
    /\ ~inv[w].ss.input_finished
    /\ ~(inv[w].is_this_a_retry /\ conf.supports_slice_recovery)

(* C18: with TASK_MAX_DATA_PROCESSING_ATTEMPTS = 3, the return of the       *)
(* delivery that holds the stored lease and ran the handler leaves the      *)
(* slice to be tried again only after the first and the second failed       *)
(* attempt, with the stored slice_retries one higher (1, then 2) and the    *)
(* lease released; a commit that moves the shard to a later slice stores    *)
(* slice_retries = 0.                                                       *)
C18_SliceRetriedTwiceThenProceeds ==
    [][\A w \in Invs :
         LET s == inv[w].t.shard
         IN  (Returns(w) /\ StoredLeaseOf(s, w) /\ HandlerRuns(w)) =>
               /\ SliceRetried(s) =>
                     /\ shard[s].slice_retries < 2
                     /\ shard'[s].slice_retries = shard[s].slice_retries + 1
                     /\ shard'[s].slice_start_time = NoTime
               /\ (shard'[s].slice_id > shard[s].slice_id
                      /\ shard'[s].retries = shard[s].retries)
                     => shard'[s].slice_retries = 0]_vars

(* C18: two attempts of one slice failed and released the lease, the stored *)
(* slice_retries is 2, and the third attempt holds the lease, runs the      *)
(* handler and can end with PROCEED_TASK.                                   *)
C18_Witness ==
    \E w \in Invs :
        /\ inv[w].pc = "run"
        /\ ~conf.supports_slice_recovery
        /\ StoredLeaseOf(inv[w].t.shard, w)
        /\ inv[w].ss.slice_retries = 2
        /\ takeover = {}
        /\ Cardinality({g \in granted : g[1] = inv[w].t.shard
                                          /\ g[2] = inv[w].t.slice_id
                                          /\ g[3] = inv[w].t.retries}) = 3
        /\ \E o \in slice_outcomes(w) : o.d = "proceed_task" /\ o.n > 0

(* The slice of the delivery w can only end in the shard retry decision:    *)
(* every outcome it has goes through _attempt_shard_retry.                  *)
BudgetExhausted(w) ==
    /\ inv[w].pc = "run"
    /\ \A o \in slice_outcomes(w) :
          set_state(o.ss, o.t, o.d).d \in {"retry_shard", "fail_task"}

(* C19: when the slice budget is exhausted and the delivery commits, the    *)
(* shard is stored FAILED and inactive, with no task enqueued, if the       *)
(* delivery's retries + 1 reaches SHARD_MAX_ATTEMPTS or the writer does not *)
(* support shard retry; otherwise it is stored active with retries one      *)
(* above the delivery's, at slice 0 with no lease and no slice retries, and *)
(* the task of those retries and slice 0 is enqueued from the start of the  *)
(* input.                                                                   *)
C19_ShardRetryDecision ==
    [][\A w \in Invs :
         LET s == inv[w].t.shard
             c == inv[w].ss
         IN  (Returns(w) /\ BudgetExhausted(w) /\ Commits(s)) =>
               IF \/ c.retries + 1 >= conf.SHARD_MAX_ATTEMPTS
                  \/ conf.output_writer /\ ~conf.supports_shard_retry
               THEN /\ ~shard'[s].active
                    /\ shard'[s].result_status = "failed"
                    /\ wtasks' = wtasks
               ELSE /\ shard'[s].active
                    /\ shard'[s].retries = c.retries + 1
                    /\ shard'[s].slice_id = 0
                    /\ shard'[s].slice_retries = 0
                    /\ shard'[s].slice_start_time = NoTime
                    /\ [shard |-> s, slice_id |-> 0, retries |-> c.retries + 1,
                        pos |-> 0] \in wtasks']_vars

(* C19: a shard retry was committed: the stored state is active in its      *)
(* second attempt at slice 0, and the task of that attempt is enqueued.     *)
C19_Witness ==
    \E s \in DOMAIN shard :
        /\ shard[s].active
        /\ shard[s].retries = 1
        /\ shard[s].slice_id = 0
        /\ shard[s].slice_start_time = NoTime
        /\ conf.SHARD_MAX_ATTEMPTS = 2
        /\ conf.supports_shard_retry
        /\ [shard |-> s, slice_id |-> 0, retries |-> 1, pos |-> 0] \in wtasks

(* What _set_state leaves of the outcomes of the delivery w in which a      *)
(* FailJobError was raised.                                                 *)
FailJobResults(w) ==
    {set_state(o.ss, o.t, o.d) : o \in {x \in slice_outcomes(w) : x.d = "fail_task"}}

(* C20: a FailJobError raised in a slice resolves to FAIL_TASK whatever is  *)
(* left of the slice and shard retry budgets: _set_state leaves the         *)
(* directive FAIL_TASK and the state FAILED and inactive, in the same shard *)
(* attempt and slice, never RETRY_SLICE or RETRY_SHARD; and the delivery    *)
(* that stores this state enqueues no task.                                 *)
C20_FailJobErrorFails ==
    /\ [](\A w \in Invs : inv[w].pc = "run" =>
             \A r \in FailJobResults(w) :
                 /\ r.d = "fail_task"
                 /\ ~r.ss.active
                 /\ r.ss.result_status = "failed"
                 /\ r.ss.retries = inv[w].ss.retries
                 /\ r.ss.slice_id = inv[w].ss.slice_id)
    /\ [][\A w \in Invs :
             LET s == inv[w].t.shard
             IN  (Returns(w) /\ shard'[s] # shard[s]
                    /\ shard'[s] \in {r.ss : r \in FailJobResults(w)})
                 => wtasks' = wtasks]_vars

(* C20: a shard is stored FAILED in its first attempt, with no slice retry  *)
(* counted, though a slice may be attempted twice and the shard twice: no   *)
(* budget was exhausted, a FailJobError failed it.                          *)
C20_Witness ==
    \E s \in DOMAIN shard :
        /\ ~shard[s].active
        /\ shard[s].result_status = "failed"
        /\ shard[s].retries = 0
        /\ shard[s].slice_retries = 0
        /\ conf.TASK_MAX_DATA_PROCESSING_ATTEMPTS = 2
        /\ conf.SHARD_MAX_ATTEMPTS = 2
        /\ conf.supports_shard_retry

-----------------------------------------------------------------------------
(* The stored ShardState of s is final with FAILED or ABORTED. *)
Resolved(s) ==
    /\ s \in DOMAIN shard
    /\ ~shard[s].active
    /\ shard[s].result_status \in {"failed", "aborted"}

(* The worker tasks of shard s that are, or have been, in the queue. *)
TasksFor(s, tasks) == {t \in tasks : t.shard = s}

(* A kickoff delivery runs _schedule_shards to its end in this step: the     *)
(* first task of every shard is added to the queue.                          *)
KickoffEnqueues(s) ==
    \E k \in 1..Len(kick) :
        /\ kick[k].pc = "put"
        /\ kick'[k].pc = "done"
        /\ s \in 1..kick[k].n

(* A kickoff delivery runs _schedule_shards in this step. *)
KickoffPuts == \E k \in 1..Len(kick) : kick[k].pc = "put" /\ kick'[k] # kick[k]

-----------------------------------------------------------------------------
(* The ShardState ss without its lease. *)
WithoutLease(ss) ==
    [ss EXCEPT !.slice_start_time = NoTime, !.slice_request_id = NoReq]

(* C22: when the transaction of _save_state_and_schedule_next fails, the    *)
(* worker releases the lease of an active shard, enqueues no follow-up task *)
(* and leaves every other field of the stored ShardState (slice_id,         *)
(* retries, slice_retries, counters, active, result_status) as it was.      *)
C22_FailedSaveOnlyReleasesLease ==
    [][\A w \in Invs :
         save_tx_error(w) =>
             LET s == inv[w].t.shard
             IN  /\ WithoutLease(shard'[s]) = WithoutLease(shard[s])
                 /\ shard[s].active => shard'[s] = WithoutLease(shard[s])
                 /\ wtasks' = wtasks]_vars

-----------------------------------------------------------------------------
(* The lease stored for the active shard s is that of the request r, which  *)
(* ended without releasing it, and is at least _MAX_LEASE_DURATION_SEC old. *)
Orphaned(s, r) ==
    /\ s \in DOMAIN shard
    /\ shard[s].active
    /\ shard[s].slice_start_time # NoTime
    /\ shard[s].slice_request_id = r
    /\ r \in Invs
    /\ inv[r].pc = "done"
    /\ now - shard[s].slice_start_time >= MAX_LEASE_DURATION_SEC

(* A later delivery than r holds the stored lease of s for the stored slice. *)
LeaseTakenAfter(s, r) ==
    \E w \in Invs :
        /\ w > r
        /\ inv[w].pc = "run"
        /\ inv[w].t.shard = s
        /\ shard[s].slice_request_id = w
        /\ inv[w].t.slice_id = shard[s].slice_id
        /\ inv[w].t.retries = shard[s].retries

(* C23: a lease that was not released does not block the shard.  Once the   *)
(* lease of an ended request is _MAX_LEASE_DURATION_SEC old, the checks of   *)
(* _try_acquire_lease let every delivery of the stored slice's task go on   *)
(* to the lease transaction, whatever the Logs API answers; and under fair  *)
(* redelivery, while the task queue has a delivery to come, a later         *)
(* delivery of that slice acquires the lease.                               *)
C23_UnreleasedLeaseIsTakenOver ==
    /\ [](\A s \in 1..MaxShards : \A r \in 1..MaxInv :
            Orphaned(s, r) =>
                \A t \in wtasks :
                    (t.shard = s /\ t.slice_id = shard[s].slice_id
                                 /\ t.retries = shard[s].retries)
                    => \A ended \in BOOLEAN :
                           validate(TRUE, shard[s], t, now, ended) = "acquire")
    /\ \A s \in 1..MaxShards : \A r \in 1..MaxInv :
           (Orphaned(s, r) /\ Len(inv) < MaxInv) ~> LeaseTakenAfter(s, r)

(* C23: the holder of the lease ended without releasing it, the lease is    *)
(* _MAX_LEASE_DURATION_SEC old, and a delivery of the same slice has passed *)
(* the checks and is about to take the lease.                               *)
C23_Witness ==
    \E s \in DOMAIN shard : \E r \in Invs : \E w \in Invs :
        /\ Orphaned(s, r)
        /\ w > r
        /\ inv[w].pc = "lease"
        /\ inv[w].ss = shard[s]
        /\ inv[w].t.slice_id = shard[s].slice_id

-----------------------------------------------------------------------------
(* The controller delivery c polls in this step: it reads the ShardStates   *)
(* and computes the MapreduceState.                                         *)
Polls(c) == ctl[c].pc = "poll" /\ ctl'[c].pc = "put"

(* The controller delivery c ends its poll in this step: the job is         *)
(* finalized, or the state stored and the next controller task added.       *)
EndsPoll(c) == ctl[c].pc = "put" /\ ctl'[c].pc = "done"

(* C24: a poll that finds no active shard computes the job inactive, with   *)
(* FAILED if a shard failed or no shard was found, ABORTED if a shard was   *)
(* aborted and none failed, SUCCESS otherwise; the poll that finalizes the  *)
(* job stores that result while the job is stored active; and the writer's  *)
(* finalize_job runs only in a poll whose result is SUCCESS.                *)
C24_ResultOfInactiveJob ==
    /\ [][\A c \in 1..Len(ctl) :
            (Polls(c) /\ \A s \in DOMAIN shard : ~shard[s].active)
            => /\ ~ctl'[c].state.active
               /\ ctl'[c].state.result_status =
                    IF \/ DOMAIN shard = {}
                       \/ \E s \in DOMAIN shard : shard[s].result_status = "failed"
                    THEN "failed"
                    ELSE IF \E s \in DOMAIN shard : shard[s].result_status = "aborted"
                    THEN "aborted"
                    ELSE "success"]_vars
    /\ [][\A c \in 1..Len(ctl) :
            (EndsPoll(c) /\ ~ctl[c].state.active /\ mr.active)
            => mr' = ctl[c].state]_vars
    /\ [][effects'.finalize_outputs # effects.finalize_outputs
            => \E c \in 1..Len(ctl) :
                 /\ EndsPoll(c)
                 /\ ~ctl[c].state.active
                 /\ ctl[c].state.result_status = "success"]_vars

(* C24: a job is stored FAILED by a poll that found a failed and an aborted *)
(* shard and none active; the writer's finalize_job did not run.            *)
C24_Witness ==
    /\ ~mr.active
    /\ mr.result_status = "failed"
    /\ mr.failed_shards > 0
    /\ mr.aborted_shards > 0
    /\ effects.finalize_job > 0
    /\ effects.finalize_outputs = 0

-----------------------------------------------------------------------------
(* C25: a poll adds the controller task serial_id + 1 when the job it       *)
(* computed is active and still stored active, and adds none when it        *)
(* computed the job inactive; and a controller delivery that finds the      *)
(* freshly read MapreduceState no longer active stores nothing and adds no  *)
(* controller task.                                                         *)
C25_SuccessorIffStillActive ==
    [][\A c \in 1..Len(ctl) :
         EndsPoll(c) =>
             /\ (ctl[c].state.active /\ mr.active /\ ctl[c].serial < MaxSerial)
                => ctl[c].serial + 1 \in Named(ctasks')
             /\ ~ctl[c].state.active => ctasks' = ctasks
             /\ ~mr.active => (mr' = mr /\ ctasks' = ctasks)]_vars

-----------------------------------------------------------------------------
(* C26: the queue holds at most one controller task for each serial_id,     *)
(* whatever deliveries of the kickoff and controller tasks are duplicated:  *)
(* an add of a serial_id the queue has seen leaves the queue as it is.      *)
(* The accepted tasks form one chain 0, 1, 2, ... in the order of their     *)
(* acceptance.                                                              *)
C26_OneControllerTaskPerSerial ==
    /\ [](\A i, j \in 1..Len(ctasks) : ctasks[i] = ctasks[j] => i = j)
    /\ [](\A i \in 1..Len(ctasks) : ctasks[i] = i - 1)
    /\ [][\A c \in 1..Len(ctl) :
            (EndsPoll(c) /\ ctl[c].serial + 1 \in Named(ctasks))
            => ctasks' = ctasks]_vars
    /\ [][\A k \in 1..Len(kick) :
            (kick[k].pc = "put" /\ kick'[k].pc = "done" /\ 0 \in Named(ctasks))
            => ctasks' = ctasks]_vars

(* C26: controller task 1 is in the queue, added by one delivery of         *)
(* controller task 0, and another delivery of controller task 0 has polled  *)
(* the job active and is about to add it again.                             *)
C26_Witness ==
    /\ ctasks = <<0, 1>>
    /\ \E c \in 1..Len(ctl) :
           /\ ctl[c].pc = "put"
           /\ ctl[c].serial = 0
           /\ ctl[c].state.active

-----------------------------------------------------------------------------
(* C27: the counters a poll computes for the job are the sum of the         *)
(* counters of the ShardStates it read, whatever the order in which         *)
(* find_all_by_mapreduce_state yields them and whatever counters an earlier *)
(* poll left in the MapreduceState.                                         *)
C27_CountersAreOrderIndependentSum ==
    [][\A c \in 1..Len(ctl) :
         Polls(c) => ctl'[c].state.calls = SumCalls(shard, DOMAIN shard)]_vars

(* C27: a poll has summed the counters of two ShardStates that differ, into *)
(* a MapreduceState that carried counters of an earlier poll.               *)
C27_Witness ==
    \E c \in 1..Len(ctl) :
        /\ ctl[c].pc = "put"
        /\ mr.calls > 0
        /\ \E s, t \in DOMAIN shard : shard[s].calls # shard[t].calls
        /\ ctl[c].state.calls = SumCalls(shard, DOMAIN shard)
        /\ ctl[c].state.calls > 0

-----------------------------------------------------------------------------
(* The controller delivery c polls in this step, having read no             *)
(* MapreduceControl, and finds a shard FAILED or ABORTED.                   *)
PollsEndedShard(c) ==
    /\ Polls(c)
    /\ ~ctl[c].control
    /\ \E s \in DOMAIN shard : shard[s].result_status \in {"failed", "aborted"}

(* C28, as claimed: a poll that finds a shard FAILED or ABORTED and read no *)
(* control record stores the abort command in that poll, and every delivery *)
(* that acquires the lease of a shard once the command is stored resolves   *)
(* to ABORT_SHARD.                                                          *)
C28_AbortOnNextLease ==
    /\ [][\A c \in 1..Len(ctl) : PollsEndedShard(c) => control' = "abort"]_vars
    /\ [][\A w \in Invs :
            (Acquires(w) /\ control = "abort") => abort_observed(inv[w])]_vars

(* C28, amended: the poll stores the abort command in that same poll; a     *)
(* delivery that starts once the command is stored reads it, and a delivery *)
(* that read it and acquires the lease resolves to ABORT_SHARD, which       *)
(* leaves the shard ABORTED and inactive.  A delivery that read the control *)
(* record before the command was stored is not bound by it.                 *)
C28_AbortOnLeaseOfDeliveryStartedAfter ==
    /\ [][\A c \in 1..Len(ctl) : PollsEndedShard(c) => control' = "abort"]_vars
    /\ [][(Len(inv') > Len(inv) /\ control = "abort")
            => abort_observed(inv'[Len(inv')])]_vars
    /\ [](\A w \in Invs :
            (inv[w].pc = "run" /\ abort_observed(inv[w]))
            => \A o \in slice_outcomes(w) :
                   LET r == set_state(o.ss, o.t, o.d)
                   IN  /\ r.d = "abort_shard"
                       /\ ~r.ss.active
                       /\ r.ss.result_status = "aborted")

(* C28: a poll found the first shard ended and stored the abort command; a  *)
(* delivery of the second shard that started afterwards holds the lease and *)
(* is about to abort the shard.                                             *)
C28_Witness ==
    /\ control = "abort"
    /\ \E c \in 1..Len(ctl) : ctl[c].pc = "put" /\ ~ctl[c].control
    /\ \E w \in Invs :
           /\ inv[w].pc = "run"
           /\ inv[w].t.shard = 2
           /\ abort_observed(inv[w])
           /\ shard[2].active

-----------------------------------------------------------------------------
(* C29: a kickoff delivery, run again or beside another, leaves every       *)
(* ShardState that exists as it is: lease, slice_id, retries and counters   *)
(* that a worker stored are not reset by _schedule_shards.                  *)
C29_KickoffNeverOverwritesShardState ==
    [][\A s \in DOMAIN shard : KickoffPuts => shard'[s] = shard[s]]_vars

-----------------------------------------------------------------------------
(* The kickoff delivery k got a FailJobError from _schedule_shards and is   *)
(* in _drop_gracefully.                                                     *)
FailedPlanning(k) == kick[k].pc \in {"fail", "drop"} /\ kick[k].n > 0

Succeeded(s) == ~shard[s].active /\ shard[s].result_status = "success"

(* The delivery w ends its slice in this step with PROCEED_TASK committed:  *)
(* the shard moves to the next slice with a task for it, or ends SUCCESS,   *)
(* and no retry of the slice or of the shard is counted.                    *)
ProceedCommitted(w) ==
    LET s == inv[w].t.shard
    IN  /\ shard'[s].retries = 0
        /\ shard'[s].slice_retries = 0
        /\ shard'[s].result_status \in {"none", "success"}
        /\ \/ /\ shard'[s].active
              /\ shard'[s].result_status = "none"
              /\ shard'[s].slice_id = shard[s].slice_id + 1
              /\ shard'[s].calls >= shard[s].calls
              /\ tstate_advance_for_next_slice(inv[w].t, FALSE).slice_id
                   \in {t.slice_id : t \in TasksFor(s, wtasks')}
           \/ /\ Succeeded(s)'
              /\ shard[s].input_finished

(* C31: under fair delivery, with a handler that never raises and no abort  *)
(* command, every slice that ends, also one stopped at its time or item     *)
(* budget, commits PROCEED_TASK (never a failure or a retry); the shard of  *)
(* the job eventually ends with result_status SUCCESS having processed its whole    *)
(* input, and the job eventually is stored inactive with result_status      *)
(* SUCCESS.                                                                 *)
C31_ProgressWithoutFailures ==
    /\ [][\A w \in 1..Len(inv) : Returns(w) => ProceedCommitted(w)]_vars
    /\ <>[](Succeeded(1) /\ shard[1].calls = InputLen)
    /\ <>[](~mr.active /\ mr.result_status = "success")

(* C31 happens: the job has ended SUCCESS with a shard every slice of which *)
(* stopped at its budget, after one item: InputLen slices read the input,   *)
(* one more found it exhausted and the last finalized the shard.            *)
C31_Witness ==
    /\ ~mr.active /\ mr.result_status = "success"
    /\ \A s \in DOMAIN shard : Succeeded(s) /\ shard[s].calls = InputLen
    /\ \E s \in DOMAIN shard : shard[s].slice_id = InputLen + 2

(* The delivery w ends in this step with its state stored for shard s by   *)
(* the final persist step.                                                  *)
Stores(w, s) ==
    /\ Returns(w)
    /\ inv[w].t.shard = s
    /\ Commits(s)

C33_EndedShardIsAbsorbingForWorkers ==
    [][\A s \in DOMAIN shard :
         (~shard[s].active /\ inv' # inv) => shard'[s] = shard[s]]_vars

(* The delivery w ends in this step with _try_free_lease changing the       *)
(* stored ShardState of s.                                                  *)
Releases(w, s) ==
    /\ inv[w].pc = "run"
    /\ inv'[w].pc = "done"
    /\ inv[w].t.shard = s
    /\ shard'[s] # shard[s]
    /\ \/ shard'[s] = try_free_lease(shard[s], TRUE)
       \/ shard'[s] = try_free_lease(shard[s], FALSE)

(* C34, as claimed: _try_free_lease clears the stored lease, and counts a   *)
(* slice retry, only when the stored lease was acquired by the delivery     *)
(* that releases; a delivery whose lease was taken over by another never    *)
(* clears that other delivery's lease.                                      *)
C34_ReleaseClearsOnlyOwnLease ==
    [][\A s \in DOMAIN shard : \A w \in 1..Len(inv) :
         Releases(w, s) => shard[s].slice_request_id = w]_vars

(* C35, as claimed: the record a lease transaction writes keeps the         *)
(* retries, slice_retries and counters stored at that moment, whatever the  *)
(* delivery read before; stored retries and slice_retries never decrease    *)
(* by the acquisition of a lease.                                           *)
C35_AcquisitionLosesNoUpdate ==
    [][\A w \in 1..Len(inv) :
         Acquires(w) =>
            LET s == inv[w].t.shard
            IN  /\ shard'[s].retries = shard[s].retries
                /\ shard'[s].slice_retries = shard[s].slice_retries
                /\ shard'[s].calls = shard[s].calls]_vars

(* C36, as claimed, in the form a finite run can refute: while the handler  *)
(* fails in every data-processing slice, the retry budget is only used up.  *)
(* A delivery that stores the shard still active in the same shard attempt  *)
(* (RECOVER_SLICE) does not give back slice attempts: the stored            *)
(* slice_retries does not decrease, so the failures of the attempt add up   *)
(* to TASK_MAX_DATA_PROCESSING_ATTEMPTS and the shard goes on to the shard  *)
(* retry decision and to FAILED.                                            *)
C36_RecoveryKeepsRetryBudget ==
    [][\A s \in DOMAIN shard : \A w \in 1..Len(inv) :
         (/\ conf.handler_always_fails
          /\ Stores(w, s)
          /\ shard'[s].active
          /\ shard'[s].retries = shard[s].retries)
            => shard'[s].slice_retries >= shard[s].slice_retries]_vars

(* The poll of the controller delivery c ends in this step by storing the   *)
(* MapreduceState with active = FALSE.                                      *)
PollStoresInactive(c) ==
    /\ ctl[c].pc = "put"
    /\ ctl'[c].pc = "done"
    /\ mr.active
    /\ ~mr'.active

(* C37, as claimed: at the moment a controller poll stores the              *)
(* MapreduceState with active = FALSE, every ShardState of the job is       *)
(* stored inactive with a result_status.                                    *)
C37_InactiveJobHasOnlyEndedShards ==
    [][\A c \in 1..Len(ctl) :
         PollStoresInactive(c) =>
            \A s \in DOMAIN shard' :
               ~shard'[s].active /\ shard'[s].result_status # "none"]_vars

(* The controller delivery c polls in this step and finds a number of       *)
(* ShardStates other than the mapper's shard_count.                         *)
PollsMismatch(c) ==
    /\ Polls(c)
    /\ Cardinality(DOMAIN shard) # ctl[c].state.shard_count

(* C38, as claimed: a poll that finds a number of ShardStates other than    *)
(* the expected shard_count issues the abort command and does not compute   *)
(* SUCCESS, and a job whose ShardStates are not of the expected number is   *)
(* never stored with result_status SUCCESS.                                 *)
C38_MismatchNeverSucceeds ==
    /\ [][\A c \in 1..Len(ctl) :
            PollsMismatch(c) => /\ control' = "abort"
                                /\ ctl'[c].state.result_status # "success"]_vars
    /\ [](Cardinality(DOMAIN shard) # mr.shard_count
            => mr.result_status # "success")

(* The kickoff delivery k ends _schedule_shards and handle in this step. *)
KickoffEnds(k) == kick[k].pc = "put" /\ kick'[k].pc = "done"

(* C39: once the MapreduceState is stored with active = FALSE, no           *)
(* controller delivery starts a poll: a delivery that finds the job         *)
(* inactive only triggers the clean up and adds no controller task.  A      *)
(* controller task is added after that only by a delivery that read the     *)
(* job while it was stored active and is still running: a poll that         *)
(* computed the job active (two deliveries overlapping around the           *)
(* finalization) or a kickoff delivery.  Each of them ends once, so the     *)
(* tasks added after the job ended are at most the deliveries running when  *)
(* it ended.                                                                *)
C39_PollingStopsAfterJobEnds ==
    /\ [][~mr.active =>
            \A c \in 1..Len(ctl') :
               ctl'[c].pc = "poll" => c \in 1..Len(ctl) /\ ctl[c].pc = "poll"]_vars
    /\ [][(~mr.active /\ effects'.cleanup_task # effects.cleanup_task)
            => ctasks' = ctasks]_vars
    /\ [][(~mr.active /\ ctasks' # ctasks)
            => \/ \E c \in 1..Len(ctl) : EndsPoll(c) /\ ctl[c].state.active
               \/ \E k \in 1..Len(kick) : KickoffEnds(k)]_vars
    /\ [][~mr.active =>
            /\ \A c \in 1..Len(ctl') :
                  ctl'[c].pc # "done" => c \in 1..Len(ctl) /\ ctl[c].pc # "done"
            /\ \A k \in 1..Len(kick') :
                  kick'[k].pc \in {"save", "get", "put"}
                    => k \in 1..Len(kick) /\ kick[k].pc \in {"save", "get", "put"}]_vars

(* C39 happens: the job is stored inactive while a controller delivery that *)
(* overlapped its finalization has computed it active and is about to add   *)
(* its successor task.                                                      *)
C39_Witness ==
    /\ ~mr.active
    /\ \E c \in 1..Len(ctl) : /\ ctl[c].pc = "put"
                              /\ ctl[c].state.active
                              /\ ctl[c].serial < MaxSerial
                              /\ (ctl[c].serial + 1) \notin Named(ctasks)

(* C40, as claimed: with TASK_MAX_DATA_PROCESSING_ATTEMPTS <= 1, a delivery *)
(* that acquires the lease while the stored acquired_once is set is         *)
(* handled as a retry (handle, line 518): it reads no input, and what it    *)
(* commits is FAILED, with no task, when its retries + 1 reaches            *)
(* SHARD_MAX_ATTEMPTS or the writer does not support shard retry, and the   *)
(* shard retry otherwise, with the task of the next attempt.                *)
C40_RetriedSliceRetriesShard ==
    /\ [][\A w \in 1..Len(inv) :
            (/\ conf.TASK_MAX_DATA_PROCESSING_ATTEMPTS <= 1
             /\ Acquires(w)
             /\ shard[inv[w].t.shard].acquired_once)
               => inv[w].is_this_a_retry]_vars
    /\ [][\A w \in 1..Len(inv) :
            LET s == inv[w].t.shard
                c == inv[w].ss
            IN  (/\ conf.TASK_MAX_DATA_PROCESSING_ATTEMPTS <= 1
                 /\ Returns(w)
                 /\ Commits(s)
                 /\ inv[w].is_this_a_retry)
                  => IF \/ c.retries + 1 >= conf.SHARD_MAX_ATTEMPTS
                        \/ conf.output_writer /\ ~conf.supports_shard_retry
                     THEN shard'[s] = set_for_failure(c) /\ wtasks' = wtasks
                     ELSE /\ shard'[s] = reset_for_retry(c)
                          /\ tstate_reset_for_retry(inv[w].t) \in wtasks']_vars

====
